---- MODULE Spec2Model ----
(***************************************************************************)
(* StreamPay: the StreamPayEscrow ledger (the Solidity contract kept in    *)
(* src/web3-apis/utility.js) and the relayer's executePayment handler      *)
(* (src/web3-apis/payment.js).                                             *)
(***************************************************************************)
EXTENDS Integers, Sequences, FiniteSets, TLC

\* ------------------------------------------------------------------ bounds
MaxAmount == 1          \* amounts of deposits, withdrawals and intents: 0..MaxAmount
MaxTime == 1            \* block.timestamp and deadlines: 0..MaxTime
MaxNonce == 1           \* nonces carried by intents: 0..MaxNonce
InitialFunds == 1       \* USDC every user wallet holds at deployment
MaxDeposited == 2       \* cap on the sum of one account's successful deposits
MaxRecorded == 1        \* largest calls_count and amount_usdc a /record request states

\* ------------------------------------------------------------- universes
Accounts == {"A", "B"}
Sessions == {"s1", "s2"}
Amounts == 0..MaxAmount
Times == 0..MaxTime
Nonces == 0..MaxNonce

\* address(this), the immutable serviceWallet and the relayer's wallet (the
\* sender of the transactions executePayment submits), as holders of USDC
EscrowAddr == "escrow"
serviceWallet == "service"
relayerWallet == "relayer"
Holders == Accounts \cup {EscrowAddr, serviceWallet, relayerWallet}

\* The address ECDSA recovery yields for a signature made over another digest:
\* some address, never the payer's.
NoSigner == "nobody"

\* EIP712("StreamPay", "1") of this deployment, and the separator of another one
DomainSeparator == "StreamPay/1/this"
OtherDomain == "StreamPay/1/other"

VARIABLES
    escrowBalances,     \* mapping(address => uint256)
    nonces,             \* mapping(address => uint256)
    settledSessions,    \* mapping(bytes32 => bool)
    usdc,               \* the USDC token's balances
    executed,           \* the PaymentExecuted events emitted so far, in order
    deposited,          \* per account, the sum of the amounts of its Deposited events
    withdrawn,          \* per account, the sum of the amounts of its Withdrawn events
    now,                \* block.timestamp
    lastTx,             \* how the latest executePaymentIntent sent directly ended
    calls,              \* the relayer's executePayment invocations
    frame,              \* the executePaymentIntent call in progress, statement by statement
    _status,            \* uint256 private _status, the reentrancy guard
    api_sessions,       \* the api_sessions table, by row id
    chat,               \* the invocations of the POST /chat handler
    storage_files,      \* the storage_files table, rows in order of creation
    upload,             \* the invocations of the POST /upload handler
    deletion            \* the invocations of the POST /delete handler

ledgerVars == <<escrowBalances, nonces, settledSessions, usdc, executed, deposited, withdrawn>>
vars == <<escrowBalances, nonces, settledSessions, usdc, executed, deposited, withdrawn,
          now, lastTx, calls, frame, _status,
          api_sessions, chat, storage_files, upload, deletion>>
web2Vars == <<api_sessions, chat, storage_files, upload, deletion>>

\* uint256 private constant _NOT_ENTERED = 1, _ENTERED = 2
_NOT_ENTERED == 1
_ENTERED == 2

\* The contract's storage together with the token and the event logs, as one
\* value the contract's functions map to the next one.
Ledger ==
    [escrowBalances |-> escrowBalances, nonces |-> nonces,
     settledSessions |-> settledSessions, usdc |-> usdc, executed |-> executed,
     deposited |-> deposited, withdrawn |-> withdrawn]

\* ------------------------------------------------------------ signatures
\* The five signed fields of a PaymentIntent.
Fields == [payer : Accounts, sessionId : Sessions, amount : Amounts,
           deadline : Times, nonce : Nonces]

FieldsOf(intent) ==
    [payer |-> intent.payer, sessionId |-> intent.sessionId, amount |-> intent.amount,
     deadline |-> intent.deadline, nonce |-> intent.nonce]

\* _hashTypedDataV4(structHash): the digest binds the domain separator and the
\* five fields, in their order.
Digest(domain, f) ==
    <<domain, f.payer, f.sessionId, f.amount, f.deadline, f.nonce>>

\* A signature, as produced off-chain by `signer` over `digest`.
Sign(signer, digest) == [signer |-> signer, digest |-> digest]

\* ecrecover over a digest that leaves the domain separator out.
RecoverWithoutDomain(digest, signature) ==
    IF Tail(signature.digest) = Tail(digest) THEN signature.signer ELSE NoSigner

\* ecrecover that does not bind the signature to the digest.
RecoverAnyDigest(digest, signature) == signature.signer

\* digest.recover(signature): the signer when the signature was made over this
\* digest, an unrelated address otherwise.
Recover(digest, signature) ==
    IF signature.digest = digest THEN signature.signer ELSE NoSigner

\* The fields f with one signed field changed: one variant for each field.
Tampered(f) ==
    {[f EXCEPT !.payer = CHOOSE a \in Accounts : a # f.payer],
     [f EXCEPT !.sessionId = CHOOSE x \in Sessions : x # f.sessionId],
     [f EXCEPT !.amount = (f.amount + 1) % (MaxAmount + 1)],
     [f EXCEPT !.deadline = (f.deadline + 1) % (MaxTime + 1)],
     [f EXCEPT !.nonce = (f.nonce + 1) % (MaxNonce + 1)]}

\* The signatures an intent with fields f may carry: by any account over f, by
\* the payer over f for another deployment, or a valid signature over fields
\* one of which was changed since.
SigsFor(f) ==
    {Sign(k, Digest(DomainSeparator, f)) : k \in Accounts}
        \cup {Sign(f.payer, Digest(OtherDomain, f))}
        \cup {Sign(g.payer, Digest(DomainSeparator, g)) : g \in Tampered(f)}

MkIntent(f, sig) ==
    [payer |-> f.payer, sessionId |-> f.sessionId, amount |-> f.amount,
     deadline |-> f.deadline, nonce |-> f.nonce, signature |-> sig]

Intents == UNION {{MkIntent(f, sig) : sig \in SigsFor(f)} : f \in Fields}

ValidSig(intent) ==
    intent.signature = Sign(intent.payer, Digest(DomainSeparator, FieldsOf(intent)))

\* ------------------------------------------------------- the USDC token
\* IERC20 transfer / transferFrom as SafeERC20 uses them: the call fails when the
\* sender holds less than amount.
CanTransfer(tok, from, amount) == tok[from] >= amount

Transfer(tok, from, to, amount) ==
    [tok EXCEPT ![from] = @ - amount, ![to] = @ + amount]

\* ------------------------------------------------- the contract's functions
\* require(cond, reason) failing: the transaction reverts, the state is again
\* the state at entry.
RevertKeepsEffects(entry, current, reason) == [ledger |-> current, status |-> reason]

Revert(entry, current, reason) == [ledger |-> entry, status |-> reason]

Ok(L) == [ledger |-> L, status |-> "ok"]

depositNoCredit(L, sender, amount) ==
    IF ~(amount > 0) THEN Revert(L, L, "Amount must be > 0")
    ELSE IF ~CanTransfer(L.usdc, sender, amount) THEN Revert(L, L, "ERC20: transfer failed")
    ELSE Ok([L EXCEPT !.usdc = Transfer(L.usdc, sender, EscrowAddr, amount),
                      !.deposited[sender] = @ + amount])

\* deposit that credits every account instead of msg.sender.
depositCreditsAll(L, sender, amount) ==
    IF ~(amount > 0) THEN Revert(L, L, "Amount must be > 0")
    ELSE IF ~CanTransfer(L.usdc, sender, amount) THEN Revert(L, L, "ERC20: transfer failed")
    ELSE LET L1 == [L EXCEPT !.usdc = Transfer(L.usdc, sender, EscrowAddr, amount)]
             L2 == [L1 EXCEPT !.escrowBalances = [a \in Accounts |-> @[a] + amount]]
         IN  Ok([L2 EXCEPT !.deposited[sender] = @ + amount])

deposit(L, sender, amount) ==
    IF ~(amount > 0) THEN Revert(L, L, "Amount must be > 0")
    ELSE IF ~CanTransfer(L.usdc, sender, amount) THEN Revert(L, L, "ERC20: transfer failed")
    ELSE LET L1 == [L EXCEPT !.usdc = Transfer(L.usdc, sender, EscrowAddr, amount)]
             L2 == [L1 EXCEPT !.escrowBalances[sender] = @ + amount]
         IN  Ok([L2 EXCEPT !.deposited[sender] = @ + amount])

withdrawUnchecked(L, sender, amount) ==
    IF ~(amount > 0) THEN Revert(L, L, "Amount must be > 0")
    ELSE LET L1 == [L EXCEPT !.escrowBalances[sender] = @ - amount]
         IN  IF ~CanTransfer(L1.usdc, EscrowAddr, amount)
             THEN Revert(L, L1, "ERC20: transfer failed")
             ELSE Ok([L1 EXCEPT !.usdc = Transfer(L1.usdc, EscrowAddr, sender, amount),
                                !.withdrawn[sender] = @ + amount])

withdraw(L, sender, amount) ==
    IF ~(amount > 0) THEN Revert(L, L, "Amount must be > 0")
    ELSE IF ~(L.escrowBalances[sender] >= amount) THEN Revert(L, L, "Insufficient balance")
    ELSE LET L1 == [L EXCEPT !.escrowBalances[sender] = @ - amount]
         IN  IF ~CanTransfer(L1.usdc, EscrowAddr, amount)
             THEN Revert(L, L1, "ERC20: transfer failed")
             ELSE Ok([L1 EXCEPT !.usdc = Transfer(L1.usdc, EscrowAddr, sender, amount),
                                !.withdrawn[sender] = @ + amount])

\* require(block.timestamp <= intent.deadline, "Intent expired")
ExpiresAtDeadline(timestamp, intent) == timestamp < intent.deadline
NotExpired(timestamp, intent) == timestamp <= intent.deadline

\* require(!settledSessions[intent.sessionId], "Already settled")
SettledCheckSkipped(L, sessionId) == TRUE
NotSettled(L, sessionId) == ~L.settledSessions[sessionId]

\* require(intent.nonce == nonces[intent.payer], "Invalid nonce")
NonceUnchecked(L, intent) == TRUE
NonceOfAllPayers(L, intent) == intent.nonce = Len(L.executed)
NonceMatches(L, intent) == intent.nonce = L.nonces[intent.payer]

\* require(escrowBalances[intent.payer] >= intent.amount, "Insufficient balance")
CoversStrictly(balance, amount) == balance > amount
Covers(balance, amount) == balance >= amount

\* executePaymentIntent(intent, serviceType) at block.timestamp = timestamp.
\* serviceType only labels the event and is left out of it here.
executePaymentIntent(L, intent, timestamp) ==
    IF ~NotExpired(timestamp, intent) THEN Revert(L, L, "Intent expired")
    ELSE IF ~NotSettled(L, intent.sessionId) THEN Revert(L, L, "Already settled")
    ELSE LET digest == Digest(DomainSeparator, FieldsOf(intent))
             signer == Recover(digest, intent.signature)
         IN
         IF ~(signer = intent.payer) THEN Revert(L, L, "Invalid signature")
         ELSE IF ~NonceMatches(L, intent) THEN Revert(L, L, "Invalid nonce")
         ELSE LET L1 == [L EXCEPT !.nonces[intent.payer] = @ + 1,
                                  !.settledSessions[intent.sessionId] = TRUE]
              IN
              IF ~Covers(L1.escrowBalances[intent.payer], intent.amount)
              THEN Revert(L, L1, "Insufficient balance")
              ELSE LET L2 == [L1 EXCEPT !.escrowBalances[intent.payer] = @ - intent.amount]
                   IN
                   IF ~CanTransfer(L2.usdc, EscrowAddr, intent.amount)
                   THEN Revert(L, L2, "ERC20: transfer failed")
                   ELSE Ok([L2 EXCEPT
                            !.usdc = Transfer(L2.usdc, EscrowAddr, serviceWallet, intent.amount),
                            !.executed = Append(@, [payer |-> intent.payer,
                                                    sessionId |-> intent.sessionId,
                                                    amount |-> intent.amount])])

\* The new ledger state becomes the contract's state.
Commit(L) ==
    /\ escrowBalances' = L.escrowBalances
    /\ nonces' = L.nonces
    /\ settledSessions' = L.settledSessions
    /\ usdc' = L.usdc
    /\ executed' = L.executed
    /\ deposited' = L.deposited
    /\ withdrawn' = L.withdrawn

\* ------------------------------------------------------------------ state
Calls == {"c1", "c2"}

\* An optional value: <<>> when absent (undefined), <<v>> when present.
Absent == <<>>
Some(v) == <<v>>
NoResponse == [code |-> 0, error |-> "none", reason |-> "none", detail |-> <<>>]

\* An executePayment invocation that has not been received yet.
NoCall ==
    [pc |-> "idle", paymentIntent |-> Absent, serviceType |-> "",
     normalizedAmount |-> Absent, tx |-> "none", res |-> NoResponse, raced |-> FALSE]

\* No executePaymentIntent call is in progress.
NoFrame == [pc |-> "idle", intent |-> Absent, entry |-> Absent, status |-> "none"]

\* ------------------------------------------------ the web2 tables and handlers
\* PER_CALL_USDC = 0.001 USDC; amount_usdc is counted in thousandths of a USDC.
PER_CALL_USDC == 1

\* The ids of api_sessions rows a request may name; "k1" exists, owned by "u1".
SessionIds == {"k1", "k2"}
ChatReqs == {"h1", "h2"}
UploadReqs == {"p1", "p2"}
DeleteReqs == {"d1"}

\* The users' addresses as requests spell them, and String.toLowerCase of them.
Spellings == {"U1", "u1", "u2"}
toLowerCase(str) == IF str = "U1" THEN "u1" ELSE str

\* The files a request may carry and the content id Pinata gives each.
Files == {"f1", "f2"}
IpfsHash(file) == <<"Qm", file>>

NoChat ==
    [pc |-> "idle", session_id |-> "", user_address |-> "", existing |-> Absent,
     res |-> [code |-> 0, error |-> "none", session |-> Absent]]
NoUpload ==
    [pc |-> "idle", file |-> Absent, user_address |-> "", cid |-> Absent,
     res |-> [code |-> 0, error |-> "none", file |-> Absent, idempotent |-> FALSE]]

NoDelete ==
    [pc |-> "idle", id |-> 0, user_address |-> "",
     res |-> [code |-> 0, error |-> "none", file |-> Absent]]

\* One usage session has been started (POST /session/start, lines 8-28) and no
\* file has been uploaded.
Web2Init ==
    /\ api_sessions = [k \in {"k1"} |->
                         [id |-> k, user_address |-> "u1", calls_count |-> 0,
                          amount_usdc |-> 0]]
    /\ chat = [h \in ChatReqs |-> NoChat]
    /\ storage_files = <<>>
    /\ upload = [p \in UploadReqs |-> NoUpload]
    /\ deletion = [d \in DeleteReqs |-> NoDelete]

Init ==
    /\ escrowBalances = [a \in Accounts |-> 0]
    /\ nonces = [a \in Accounts |-> 0]
    /\ settledSessions = [s \in Sessions |-> FALSE]
    /\ usdc = [h \in Holders |-> IF h \in Accounts THEN InitialFunds ELSE 0]
    /\ executed = <<>>
    /\ deposited = [a \in Accounts |-> 0]
    /\ withdrawn = [a \in Accounts |-> 0]
    /\ now = 0
    /\ lastTx = "none"
    /\ calls = [c \in Calls |-> NoCall]
    /\ frame = NoFrame
    /\ _status = _NOT_ENTERED
    /\ Web2Init

\* A call is exposed to a race from the first read of its pre-check until its
\* own transaction has been executed (or refused) by the ledger.
InWindow(call) ==
    \/ call.pc \in {"isSessionSettled", "submit"}
    \/ call.tx = "pending"

\* An operation that leaves the ledger in state L touches a call when it changes
\* the balance or nonce of the call's payer or the settled flag of its session.
Touches(call, L) ==
    LET intent == call.paymentIntent[1]
    IN  \/ L.escrowBalances[intent.payer] # escrowBalances[intent.payer]
        \/ L.nonces[intent.payer] # nonces[intent.payer]
        \/ L.settledSessions[intent.sessionId] # settledSessions[intent.sessionId]

\* Bookkeeping for the claims only: a call in its window has been raced when an
\* operation touches it or the time moves on.
MarkRaced(cs, L, tick) ==
    [c \in Calls |->
        IF InWindow(cs[c]) /\ (tick \/ Touches(cs[c], L))
        THEN [cs[c] EXCEPT !.raced = TRUE] ELSE cs[c]]

\* ------------------------------------------------ transactions sent directly
\* A user's deposit transaction.
Deposit(a, amount) ==
    /\ deposited[a] + amount <= MaxDeposited
    /\ LET r == deposit(Ledger, a, amount)
       IN  /\ Commit(r.ledger)
           /\ calls' = MarkRaced(calls, r.ledger, FALSE)
    /\ UNCHANGED <<now, lastTx, frame, _status, web2Vars>>

\* A user's withdraw transaction.
Withdraw(a, amount) ==
    /\ LET r == withdraw(Ledger, a, amount)
       IN  /\ Commit(r.ledger)
           /\ calls' = MarkRaced(calls, r.ledger, FALSE)
    /\ UNCHANGED <<now, lastTx, frame, _status, web2Vars>>

\* executePaymentIntent called by anyone: the function is external and open.
DirectExecute(intent) ==
    /\ LET r == executePaymentIntent(Ledger, intent, now)
       IN  /\ Commit(r.ledger)
           /\ lastTx' = r.status
           /\ calls' = MarkRaced(calls, r.ledger, FALSE)
    /\ UNCHANGED <<now, frame, _status, web2Vars>>

\* A later block.
Tick ==
    /\ now < MaxTime
    /\ now' = now + 1
    /\ calls' = MarkRaced(calls, Ledger, TRUE)
    /\ UNCHANGED <<ledgerVars, lastTx, frame, _status, web2Vars>>

Next ==
    \/ \E a \in Accounts, amount \in Amounts : Deposit(a, amount)
    \/ \E a \in Accounts, amount \in Amounts : Withdraw(a, amount)
    \/ \E intent \in Intents : DirectExecute(intent)
    \/ Tick

Spec == Init /\ [][Next]_vars

\* ------------------------------------------- the relayer: executePayment
\* The intents clients send to the relayer: signed over their own fields for
\* this deployment, by the payer or by somebody else.
RelayIntents ==
    {i \in Intents : i.signature.digest = Digest(DomainSeparator, FieldsOf(i))}

\* How a request body spells paymentIntent.amount: "integer" is the integer
\* (a number or a decimal string) the intent record holds; "abc" is a string
\* that is no integer literal and "1.5" the number 1.5, sent in its place.
NotIntegers == {"abc", "1.5"}
AmountSpellings == {"integer"} \cup NotIntegers

\* BigInt(paymentIntent.amount), lines 32-34: the integer, or nothing when the
\* conversion throws.
BigInt(amountAs, amount) == IF amountAs = "integer" THEN Some(amount) ELSE Absent

\* The message of the error BigInt throws for a spelling that is no integer.
BigIntError(amountAs) ==
    IF amountAs = "abc"
    THEN "Cannot convert abc to a BigInt"
    ELSE "The number 1.5 cannot be converted to a BigInt because it is not an integer"

\* req.body: { paymentIntent, serviceType }, either of which may be missing
\* (an absent serviceType and an empty one are both falsy), with the spelling of
\* the intent's amount.
Requests ==
    [paymentIntent : {Some(i) : i \in RelayIntents}, serviceType : {"chat"},
     amountAs : AmountSpellings]
        \cup {[paymentIntent |-> Absent, serviceType |-> "chat", amountAs |-> "integer"]}
        \cup {[paymentIntent |-> Some(CHOOSE i \in RelayIntents : TRUE), serviceType |-> "",
                amountAs |-> "integer"]}

\* The intent of a call that carries one.
IntentOf(c) == calls[c].paymentIntent[1]

\* ethers.formatUnits(value, decimals): the decimal string of value / 10^decimals,
\* kept as its integer part and its fraction in units.
formatUnits(value, decimals) == <<value \div (10 ^ decimals), value % (10 ^ decimals)>>

Respond(c, code, error, reason, detail) ==
    [calls[c] EXCEPT !.pc = "done",
        !.res = [code |-> code, error |-> error, reason |-> reason, detail |-> detail]]

\* Lines 13-39: the request is received, its fields are checked, the amount is
\* converted with BigInt, and the handler suspends on contract.getBalance. A
\* conversion that throws is caught at line 130 and answered 500.
Receive(c, req) ==
    /\ calls[c].pc = "idle"
    /\ LET got == [calls[c] EXCEPT !.paymentIntent = req.paymentIntent,
                                   !.serviceType = req.serviceType]
       IN  calls' = [calls EXCEPT ![c] =
              IF req.paymentIntent = Absent \/ req.serviceType = ""
              THEN [got EXCEPT !.pc = "done",
                       !.res = [code |-> 400, error |-> "Missing required fields",
                                reason |-> "none", detail |-> <<>>]]
              ELSE LET normalizedAmount ==
                           BigInt(req.amountAs, req.paymentIntent[1].amount)
                   IN  IF normalizedAmount = Absent
                       THEN [got EXCEPT !.pc = "done",
                                !.res = [code |-> 500,
                                         error |-> BigIntError(req.amountAs),
                                         reason |-> "none", detail |-> <<>>]]
                       ELSE [got EXCEPT !.pc = "getBalance",
                                        !.normalizedAmount = normalizedAmount]]
    /\ UNCHANGED <<ledgerVars, now, lastTx, frame, _status, web2Vars>>

\* getBalance returns and the balance is not compared with the amount.
GetBalanceUnchecked(c) ==
    /\ calls[c].pc = "getBalance"
    /\ calls' = [calls EXCEPT ![c].pc = "isSessionSettled"]
    /\ UNCHANGED <<ledgerVars, now, lastTx, frame, _status, web2Vars>>

\* getBalance returns and the 400 answer is sent without a return: the handler
\* goes on.
GetBalanceNoReturn(c) ==
    /\ calls[c].pc = "getBalance"
    /\ LET intent == IntentOf(c)
           balance == escrowBalances[intent.payer]
       IN  calls' = [calls EXCEPT ![c] =
              IF balance < intent.amount
              THEN [Respond(c, 400, "Insufficient escrow balance", "none",
                            <<formatUnits(balance, 6), formatUnits(intent.amount, 6)>>)
                       EXCEPT !.pc = "isSessionSettled"]
              ELSE [calls[c] EXCEPT !.pc = "isSessionSettled"]]
    /\ UNCHANGED <<ledgerVars, now, lastTx, frame, _status, web2Vars>>

\* Lines 39-55: getBalance returns; too small a balance is answered with 400.
GetBalance(c) ==
    /\ calls[c].pc = "getBalance"
    /\ LET intent == IntentOf(c)
           balance == escrowBalances[intent.payer]
           normalizedAmount == calls[c].normalizedAmount[1]
           balanceUSDC == formatUnits(balance, 6)
           amountUSDC == formatUnits(normalizedAmount, 6)
       IN  calls' = [calls EXCEPT ![c] =
              IF balance < normalizedAmount
              THEN Respond(c, 400, "Insufficient escrow balance", "none",
                           <<balanceUSDC, amountUSDC>>)
              ELSE [calls[c] EXCEPT !.pc = "isSessionSettled"]]
    /\ UNCHANGED <<ledgerVars, now, lastTx, frame, _status, web2Vars>>

\* Lines 57-62: isSessionSettled returns; a settled session is answered with 400.
IsSessionSettled(c) ==
    /\ calls[c].pc = "isSessionSettled"
    /\ LET isSettled == settledSessions[IntentOf(c).sessionId]
       IN  calls' = [calls EXCEPT ![c] =
              IF isSettled
              THEN Respond(c, 400, "Session already settled", "none", <<>>)
              ELSE [calls[c] EXCEPT !.pc = "submit"]]
    /\ UNCHANGED <<ledgerVars, now, lastTx, frame, _status, web2Vars>>

\* Lines 82-85: contract.executePaymentIntent. The provider first runs the call
\* against the current state (gas estimation): a call that reverts there is thrown
\* to the catch block with its reason and no transaction is sent; otherwise the
\* transaction is sent and the handler suspends on tx.wait().
Submit(c) ==
    /\ calls[c].pc = "submit"
    /\ LET r == executePaymentIntent(Ledger, IntentOf(c), now)
       IN  calls' = [calls EXCEPT ![c] =
              IF r.status = "ok"
              THEN [calls[c] EXCEPT !.pc = "wait", !.tx = "pending"]
              ELSE Respond(c, 500, "execution reverted", r.status, <<>>)]
    /\ UNCHANGED <<ledgerVars, now, lastTx, frame, _status, web2Vars>>

\* The transaction a call sent is included in a block: the ledger executes it.
Mine(c) ==
    /\ calls[c].tx = "pending"
    /\ LET r == executePaymentIntent(Ledger, IntentOf(c), now)
           cs == MarkRaced([calls EXCEPT ![c].tx = r.status], r.ledger, FALSE)
       IN  /\ Commit(r.ledger)
           /\ calls' = [cs EXCEPT ![c].raced = calls[c].raced]
    /\ UNCHANGED <<now, lastTx, frame, _status, web2Vars>>

\* tx.wait() whose failure is swallowed: the success response whatever the receipt.
WaitReportsSuccess(c) ==
    /\ calls[c].pc = "wait"
    /\ calls[c].tx \notin {"none", "pending"}
    /\ calls' = [calls EXCEPT ![c] =
          Respond(c, 200, "none", "none", <<formatUnits(IntentOf(c).amount, 6)>>)]
    /\ UNCHANGED <<ledgerVars, now, lastTx, frame, _status, web2Vars>>

\* tx.wait() whose failure makes the handler submit the intent again.
WaitResubmits(c) ==
    /\ calls[c].pc = "wait"
    /\ calls[c].tx \notin {"none", "pending"}
    /\ calls' = [calls EXCEPT ![c] =
          IF calls[c].tx = "ok"
          THEN Respond(c, 200, "none", "none", <<formatUnits(IntentOf(c).amount, 6)>>)
          ELSE [calls[c] EXCEPT !.pc = "submit", !.tx = "none"]]
    /\ UNCHANGED <<ledgerVars, now, lastTx, frame, _status, web2Vars>>

\* Lines 94-128, 130-142: tx.wait() returns the receipt of the mined transaction
\* (success response) or throws for a reverted one (catch block). Whether the
\* error thrown for a mined transaction carries the revert reason is up to the
\* provider library: both are possible here.
Wait(c) ==
    /\ calls[c].pc = "wait"
    /\ calls[c].tx \notin {"none", "pending"}
    /\ \E reason \in {calls[c].tx, "none"} :
          calls' = [calls EXCEPT ![c] =
             IF calls[c].tx = "ok"
             THEN Respond(c, 200, "none", "none", <<formatUnits(IntentOf(c).amount, 6)>>)
             ELSE Respond(c, 500, "execution reverted", reason, <<>>)]
    /\ UNCHANGED <<ledgerVars, now, lastTx, frame, _status, web2Vars>>

\* Lines 130-142: an awaited ledger call fails for a reason of the environment
\* (RPC or network error); the catch block answers 500. A transaction already
\* sent stays where it is.
RpcFail(c) ==
    /\ calls[c].pc \in {"getBalance", "isSessionSettled", "submit", "wait"}
    /\ calls' = [calls EXCEPT ![c] = Respond(c, 500, "network error", "none", <<>>)]
    /\ UNCHANGED <<ledgerVars, now, lastTx, frame, _status, web2Vars>>

\* One executePayment call and the users' own transactions.
CallNext ==
    \/ \E a \in Accounts, amount \in Amounts : Deposit(a, amount)
    \/ \E a \in Accounts, amount \in Amounts : Withdraw(a, amount)
    \/ Tick
    \/ \E req \in Requests : Receive("c1", req)
    \/ GetBalance("c1")
    \/ IsSessionSettled("c1")
    \/ Submit("c1")
    \/ Mine("c1")
    \/ Wait("c1")
    \/ RpcFail("c1")

CallSpec == Init /\ [][CallNext]_vars

\* The ledger call that call c is suspended on returns or throws.
AwaitEnds(c) ==
    GetBalance(c) \/ IsSessionSettled(c) \/ Submit(c) \/ Wait(c) \/ RpcFail(c)

\* One executePayment call every awaited ledger call of which eventually returns
\* or throws.
CallLive == Init /\ [][CallNext]_vars /\ WF_vars(AwaitEnds("c1"))

\* Two concurrent executePayment calls on a ledger the users have funded and
\* withdraw from. Both intents are validly signed, positive and due at
\* the last block. Accounts, sessions and calls are interchangeable: the calls
\* are numbered as they arrive, the first one is for payer "A" and session "s1".
PairIntents ==
    {i \in RelayIntents : ValidSig(i) /\ i.amount > 0 /\ i.deadline = MaxTime}

FirstCome(c, intent) ==
    /\ c = "c2" => calls["c1"].pc # "idle"
    /\ c = "c1" => intent.payer = "A" /\ intent.sessionId = "s1"

PairInit ==
    /\ \E funded \in [Accounts -> 0..InitialFunds] :
          /\ escrowBalances = funded
          /\ deposited = funded
          /\ usdc = [h \in Holders |->
                        IF h \in Accounts THEN InitialFunds - funded[h]
                        ELSE IF h = EscrowAddr THEN funded["A"] + funded["B"] ELSE 0]
    /\ nonces = [a \in Accounts |-> 0]
    /\ settledSessions = [s \in Sessions |-> FALSE]
    /\ executed = <<>>
    /\ withdrawn = [a \in Accounts |-> 0]
    /\ now = 0
    /\ lastTx = "none"
    /\ calls = [c \in Calls |-> NoCall]
    /\ frame = NoFrame
    /\ _status = _NOT_ENTERED
    /\ Web2Init

PairNext ==
    \/ \E c \in Calls, intent \in PairIntents :
          /\ FirstCome(c, intent)
          /\ Receive(c, [paymentIntent |-> Some(intent), serviceType |-> "chat",
                         amountAs |-> "integer"])
    \/ \E c \in Calls : GetBalance(c)
    \/ \E c \in Calls : IsSessionSettled(c)
    \/ \E c \in Calls : Submit(c)
    \/ \E c \in Calls : Mine(c)
    \/ \E c \in Calls : Wait(c)
    \/ \E c \in Calls : RpcFail(c)
    \/ \E a \in Accounts, amount \in Amounts : Withdraw(a, amount)

PairSpec == PairInit /\ [][PairNext]_vars

\* Two concurrent executePayment calls while the users both withdraw from and
\* deposit into the ledger.
TopUpNext ==
    \/ PairNext
    \/ \E a \in Accounts, amount \in Amounts : Deposit(a, amount)

TopUpSpec == PairInit /\ [][TopUpNext]_vars

\* Two executePayment calls, one for each payer, whose intents carry the same
\* sessionId; validly signed and positive, with any deadline and nonce, while
\* time passes.
SharedIntents ==
    {i \in RelayIntents : ValidSig(i) /\ i.amount > 0 /\ i.sessionId = "s1"}

SharedNext ==
    \/ \E c \in Calls, intent \in SharedIntents :
          /\ intent.payer = (IF c = "c1" THEN "A" ELSE "B")
          /\ Receive(c, [paymentIntent |-> Some(intent), serviceType |-> "chat",
                         amountAs |-> "integer"])
    \/ \E c \in Calls : GetBalance(c)
    \/ \E c \in Calls : IsSessionSettled(c)
    \/ \E c \in Calls : Submit(c)
    \/ \E c \in Calls : Mine(c)
    \/ \E c \in Calls : Wait(c)
    \/ \E c \in Calls : RpcFail(c)
    \/ Tick

SharedSpec == PairInit /\ [][SharedNext]_vars

\* ------------------------- executePaymentIntent, one statement at a time
\* The statements of executePaymentIntent in source order; frame.pc names the
\* statement about to run, the contract's variables hold the state the call has
\* reached and frame.entry the state it started from.
RequireStatements == {"deadline", "notSettled", "signer", "nonce", "balance"}
EffectStatements == {"nonces++", "settledSessions", "debit", "safeTransfer"}
FrameIntent == frame.intent[1]
FrameEntry == frame.entry[1]

GoTo(pc) == frame' = [frame EXCEPT !.pc = pc]

\* A failed require that leaves the call's writes in place.
RevertFrameKeepsWrites(reason) ==
    /\ UNCHANGED ledgerVars
    /\ _status' = _NOT_ENTERED
    /\ frame' = [frame EXCEPT !.pc = "done", !.status = reason]

\* A failed require: the call's writes are undone.
RevertFrame(reason) ==
    /\ Commit(FrameEntry)
    /\ _status' = _NOT_ENTERED
    /\ frame' = [frame EXCEPT !.pc = "done", !.status = reason]

\* require(cond, reason) as statement pc, followed by statement next.
Require(pc, cond, reason, next) ==
    /\ frame.pc = pc
    /\ IF cond THEN GoTo(next) /\ UNCHANGED <<ledgerVars, _status>> ELSE RevertFrame(reason)
    /\ UNCHANGED <<now, lastTx, calls, web2Vars>>

\* Lines 424-426, 487-490: a transaction calls executePaymentIntent and passes
\* the nonReentrant modifier.
Enter(intent) ==
    /\ frame.pc = "idle"
    /\ _status # _ENTERED
    /\ _status' = _ENTERED
    /\ frame' = [pc |-> "deadline", intent |-> Some(intent), entry |-> Some(Ledger),
                 status |-> "running"]
    /\ UNCHANGED <<ledgerVars, now, lastTx, calls, web2Vars>>

\* Line 492.
RequireDeadline ==
    Require("deadline", NotExpired(now, FrameIntent), "Intent expired", "notSettled")

\* Line 495.
RequireNotSettled ==
    Require("notSettled", NotSettled(Ledger, FrameIntent.sessionId), "Already settled",
            "signer")

\* Lines 498-514.
RequireSigner ==
    Require("signer",
            Recover(Digest(DomainSeparator, FieldsOf(FrameIntent)), FrameIntent.signature)
                = FrameIntent.payer,
            "Invalid signature", "nonce")

\* Line 515.
RequireNonce ==
    Require("nonce", NonceMatches(Ledger, FrameIntent), "Invalid nonce", "nonces++")

\* Line 518.
IncrementNonce ==
    /\ frame.pc = "nonces++"
    /\ nonces' = [nonces EXCEPT ![FrameIntent.payer] = @ + 1]
    /\ GoTo("settledSessions")
    /\ UNCHANGED <<escrowBalances, settledSessions, usdc, executed, deposited, withdrawn,
                   now, lastTx, calls, _status, web2Vars>>

\* Line 519.
MarkSettled ==
    /\ frame.pc = "settledSessions"
    /\ settledSessions' = [settledSessions EXCEPT ![FrameIntent.sessionId] = TRUE]
    /\ GoTo("balance")
    /\ UNCHANGED <<escrowBalances, nonces, usdc, executed, deposited, withdrawn,
                   now, lastTx, calls, _status, web2Vars>>

\* Line 522.
RequireBalance ==
    Require("balance", Covers(escrowBalances[FrameIntent.payer], FrameIntent.amount),
            "Insufficient balance", "debit")

\* Line 525.
Debit ==
    /\ frame.pc = "debit"
    /\ escrowBalances' = [escrowBalances EXCEPT ![FrameIntent.payer] = @ - FrameIntent.amount]
    /\ GoTo("safeTransfer")
    /\ UNCHANGED <<nonces, settledSessions, usdc, executed, deposited, withdrawn,
                   now, lastTx, calls, _status, web2Vars>>

\* Lines 528-536: the transfer to the service wallet and the event; the call
\* returns.
SafeTransfer ==
    /\ frame.pc = "safeTransfer"
    /\ IF CanTransfer(usdc, EscrowAddr, FrameIntent.amount)
       THEN /\ usdc' = Transfer(usdc, EscrowAddr, serviceWallet, FrameIntent.amount)
            /\ executed' = Append(executed, [payer |-> FrameIntent.payer,
                                             sessionId |-> FrameIntent.sessionId,
                                             amount |-> FrameIntent.amount])
            /\ frame' = [frame EXCEPT !.pc = "done", !.status = "ok"]
            /\ _status' = _NOT_ENTERED
            /\ UNCHANGED <<escrowBalances, nonces, settledSessions, deposited, withdrawn>>
       ELSE RevertFrame("ERC20: transfer failed")
    /\ UNCHANGED <<now, lastTx, calls, web2Vars>>

\* The transaction is over: its outcome stays in the ledger, its frame goes.
Return ==
    /\ frame.pc = "done"
    /\ frame' = NoFrame
    /\ UNCHANGED <<ledgerVars, now, lastTx, calls, _status, web2Vars>>

\* A later block, between transactions.
StepTick ==
    /\ frame.pc = "idle"
    /\ now < MaxTime
    /\ now' = now + 1
    /\ UNCHANGED <<ledgerVars, lastTx, calls, frame, _status, web2Vars>>

StepNext ==
    \/ \E intent \in Intents : Enter(intent)
    \/ RequireDeadline
    \/ RequireNotSettled
    \/ RequireSigner
    \/ RequireNonce
    \/ IncrementNonce
    \/ MarkSettled
    \/ RequireBalance
    \/ Debit
    \/ SafeTransfer
    \/ Return
    \/ StepTick

\* Every user has deposited all its funds; nothing has been settled.
StepInit ==
    /\ escrowBalances = [a \in Accounts |-> InitialFunds]
    /\ deposited = [a \in Accounts |-> InitialFunds]
    /\ usdc = [h \in Holders |->
                  IF h = EscrowAddr THEN InitialFunds * Cardinality(Accounts) ELSE 0]
    /\ nonces = [a \in Accounts |-> 0]
    /\ settledSessions = [s \in Sessions |-> FALSE]
    /\ executed = <<>>
    /\ withdrawn = [a \in Accounts |-> 0]
    /\ now = 0
    /\ lastTx = "none"
    /\ calls = [c \in Calls |-> NoCall]
    /\ frame = NoFrame
    /\ _status = _NOT_ENTERED
    /\ Web2Init

StepSpec == StepInit /\ [][StepNext]_vars

\* ------------------------- the reentrancy guard around the token calls
\* The calls of the three nonReentrant functions: who calls and with what.
GuardCalls ==
    [fn : {"deposit", "withdraw"}, sender : Accounts, amount : Amounts]
        \cup [fn : {"executePaymentIntent"}, intent : {i \in Intents : ValidSig(i)}]

FrameCall == frame.intent[1]

\* The function of call run as a whole on ledger L at time t.
Run(call, L, t) ==
    CASE call.fn = "deposit" -> deposit(L, call.sender, call.amount)
      [] call.fn = "withdraw" -> withdraw(L, call.sender, call.amount)
      [] call.fn = "executePaymentIntent" -> executePaymentIntent(L, call.intent, t)

\* The contract's state when the function of call, started on L, makes its
\* external token call: deposit has written nothing yet (line 455), withdraw has
\* debited the balance (472), executePaymentIntent has incremented the nonce,
\* marked the session and debited the balance (518-525).
AtExternal(call, L) ==
    CASE call.fn = "deposit" -> L
      [] call.fn = "withdraw" -> [L EXCEPT !.escrowBalances[call.sender] = @ - call.amount]
      [] call.fn = "executePaymentIntent" ->
            [L EXCEPT !.nonces[call.intent.payer] = @ + 1,
                      !.settledSessions[call.intent.sessionId] = TRUE,
                      !.escrowBalances[call.intent.payer] = @ - call.intent.amount]

\* Whether the token call of call can be paid on ledger L.
CanPay(call, L) ==
    CASE call.fn = "deposit" -> CanTransfer(L.usdc, call.sender, call.amount)
      [] call.fn = "withdraw" -> CanTransfer(L.usdc, EscrowAddr, call.amount)
      [] call.fn = "executePaymentIntent" -> CanTransfer(L.usdc, EscrowAddr, call.intent.amount)

\* The token call itself and the statements after it, on the state L the
\* contract is in when the token call returns.
AfterExternal(call, L) ==
    CASE call.fn = "deposit" ->
            [L EXCEPT !.usdc = Transfer(L.usdc, call.sender, EscrowAddr, call.amount),
                      !.escrowBalances[call.sender] = @ + call.amount,
                      !.deposited[call.sender] = @ + call.amount]
      [] call.fn = "withdraw" ->
            [L EXCEPT !.usdc = Transfer(L.usdc, EscrowAddr, call.sender, call.amount),
                      !.withdrawn[call.sender] = @ + call.amount]
      [] call.fn = "executePaymentIntent" ->
            [L EXCEPT !.usdc = Transfer(L.usdc, EscrowAddr, serviceWallet, call.intent.amount),
                      !.executed = Append(@, [payer |-> call.intent.payer,
                                              sessionId |-> call.intent.sessionId,
                                              amount |-> call.intent.amount])]

\* Deposits are counted up to MaxDeposited for each account.
WithinCap(call) ==
    call.fn = "deposit" => deposited[call.sender] + call.amount <= MaxDeposited

\* The modifier without its require.
GuardIgnored(status) == TRUE

\* require(_status != _ENTERED, "ReentrancyGuard: reentrant call")
GuardFree(status) == status # _ENTERED

\* A transaction calls one of the three functions: the modifier sets the guard
\* and the body runs up to its external token call; a require failing before
\* that reverts the transaction.
GuardedCall(call) ==
    /\ frame.pc = "idle"
    /\ WithinCap(call)
    /\ LET r == Run(call, Ledger, now)
           started == [pc |-> "external", intent |-> Some(call), entry |-> Some(Ledger),
                       status |-> "running"]
       IN  IF ~GuardFree(_status)
           THEN /\ frame' = [started EXCEPT !.pc = "done",
                                            !.status = "ReentrancyGuard: reentrant call"]
                /\ UNCHANGED <<ledgerVars, _status>>
           ELSE IF r.status \in {"ok", "ERC20: transfer failed"}
           THEN /\ Commit(AtExternal(call, Ledger))
                /\ _status' = _ENTERED
                /\ frame' = started
           ELSE /\ frame' = [started EXCEPT !.pc = "done", !.status = r.status]
                /\ UNCHANGED <<ledgerVars, _status>>
    /\ UNCHANGED <<now, lastTx, calls, web2Vars>>

\* While the token call is running, the token (or a contract it calls) calls
\* one of the three functions: the modifier's require reverts the nested call.
\* lastTx keeps how the latest nested call ended.
Reenter(call) ==
    /\ frame.pc = "external"
    /\ WithinCap(call)
    /\ IF ~GuardFree(_status)
       THEN /\ lastTx' = "ReentrancyGuard: reentrant call"
            /\ UNCHANGED <<ledgerVars, _status>>
       ELSE LET r == Run(call, Ledger, now)
            IN  /\ Commit(r.ledger)
                /\ lastTx' = r.status
                /\ _status' = IF r.status = "ok" THEN _NOT_ENTERED ELSE _status
    /\ UNCHANGED <<now, calls, frame, web2Vars>>

\* The token call returns: the rest of the function runs and the modifier
\* releases the guard.
ExternalReturns ==
    /\ frame.pc = "external"
    /\ CanPay(FrameCall, Ledger)
    /\ Commit(AfterExternal(FrameCall, Ledger))
    /\ _status' = _NOT_ENTERED
    /\ frame' = [frame EXCEPT !.pc = "done", !.status = "ok"]
    /\ UNCHANGED <<now, lastTx, calls, web2Vars>>

\* The token call reverts, for lack of funds or for any reason of the token's:
\* the transaction reverts and every write of it, the guard's included, is undone.
ExternalFails ==
    /\ frame.pc = "external"
    /\ Commit(FrameEntry)
    /\ _status' = _NOT_ENTERED
    /\ frame' = [frame EXCEPT !.pc = "done", !.status = "ERC20: transfer failed"]
    /\ UNCHANGED <<now, lastTx, calls, web2Vars>>

GuardNext ==
    \/ \E call \in GuardCalls : GuardedCall(call)
    \/ \E call \in GuardCalls : Reenter(call)
    \/ ExternalReturns
    \/ ExternalFails
    \/ Return
    \/ StepTick

GuardSpec == PairInit /\ [][GuardNext]_vars

\* ------------------------------------------------ the AI usage session routes

\* supabase .eq('id', id).eq('user_address', addr).maybeSingle() on api_sessions.
SessionOf(id, addr) ==
    IF id \in DOMAIN api_sessions /\ api_sessions[id].user_address = addr
    THEN Some(api_sessions[id])
    ELSE Absent

\* The increment the handler computes from the row it read.
nextCalls(existing) == existing.calls_count + 1
nextAmount(existing) == existing.amount_usdc + PER_CALL_USDC

\* POST /session/start: inserts a row with no calls, under the next free id.
SessionStart(user_address) ==
    /\ user_address # ""
    /\ \E k \in SessionIds \ DOMAIN api_sessions :
          /\ api_sessions' = [j \in DOMAIN api_sessions \cup {k} |->
                IF j = k
                THEN [id |-> k, user_address |-> toLowerCase(user_address),
                      calls_count |-> 0, amount_usdc |-> 0]
                ELSE api_sessions[j]]
    /\ UNCHANGED <<ledgerVars, now, lastTx, calls, frame, _status, chat,
                   storage_files, upload, deletion>>

\* POST /chat up to its first await: the two required fields.
ChatReceive(h, session_id, user_address) ==
    /\ chat[h].pc = "idle"
    /\ chat' = [chat EXCEPT ![h] =
          IF session_id = ""
          THEN [@ EXCEPT !.pc = "done",
                         !.res = [@ EXCEPT !.code = 400,
                                           !.error = "session_id is required"]]
          ELSE IF user_address = ""
          THEN [@ EXCEPT !.pc = "done", !.session_id = session_id,
                         !.res = [@ EXCEPT !.code = 400,
                                           !.error = "user_address is required"]]
          ELSE [@ EXCEPT !.pc = "select", !.session_id = session_id,
                         !.user_address = user_address]]
    /\ UNCHANGED <<ledgerVars, now, lastTx, calls, frame, _status, api_sessions,
                   storage_files, upload, deletion>>

\* The select resolves: the row of that id and lower-cased owner, or 404.
ChatSelect(h) ==
    /\ chat[h].pc = "select"
    /\ LET existing == SessionOf(chat[h].session_id, toLowerCase(chat[h].user_address))
       IN chat' = [chat EXCEPT ![h] =
             IF existing = Absent
             THEN [@ EXCEPT !.pc = "done",
                            !.res = [@ EXCEPT !.code = 404,
                                              !.error = "session not found"]]
             ELSE [@ EXCEPT !.pc = "update", !.existing = existing]]
    /\ UNCHANGED <<ledgerVars, now, lastTx, calls, frame, _status, api_sessions,
                   storage_files, upload, deletion>>

\* The update resolves: the row of that id gets the values computed from the
\* row read before, and the handler answers 200 with the updated row.
ChatUpdate(h) ==
    /\ chat[h].pc = "update"
    /\ LET id == chat[h].session_id
           updated == [api_sessions[id] EXCEPT
                          !.calls_count = nextCalls(chat[h].existing[1]),
                          !.amount_usdc = nextAmount(chat[h].existing[1])]
       IN /\ api_sessions' = [api_sessions EXCEPT ![id] = updated]
          /\ chat' = [chat EXCEPT ![h] =
                [@ EXCEPT !.pc = "done",
                          !.res = [@ EXCEPT !.code = 200,
                                            !.session = Some(updated)]]]
    /\ UNCHANGED <<ledgerVars, now, lastTx, calls, frame, _status, storage_files,
                   upload, deletion>>

\* Either statement fails in the database: the handler answers 500 and the
\* table is as it was.
ChatDbError(h) ==
    /\ chat[h].pc \in {"select", "update"}
    /\ chat' = [chat EXCEPT ![h] =
          [@ EXCEPT !.pc = "done",
                    !.res = [@ EXCEPT !.code = 500, !.error = "database error"]]]
    /\ UNCHANGED <<ledgerVars, now, lastTx, calls, frame, _status, api_sessions,
                   storage_files, upload, deletion>>

\* POST /record: inserts a finished usage entry with the calls_count and the
\* amount_usdc the caller states, under the next free id. A request that lacks
\* a field is answered 400 and writes nothing.
Record(user_address, calls_count, amount_usdc, tx_hash) ==
    /\ user_address # "" /\ calls_count # Absent /\ amount_usdc # Absent
    /\ tx_hash # ""
    /\ \E k \in SessionIds \ DOMAIN api_sessions :
          api_sessions' = [j \in DOMAIN api_sessions \cup {k} |->
                IF j = k
                THEN [id |-> k, user_address |-> toLowerCase(user_address),
                      calls_count |-> calls_count[1],
                      amount_usdc |-> amount_usdc[1]]
                ELSE api_sessions[j]]
    /\ UNCHANGED <<ledgerVars, now, lastTx, calls, frame, _status, chat,
                   storage_files, upload, deletion>>

ChatNext ==
    \/ \E user_address \in Spellings : SessionStart(user_address)
    \/ \E user_address \in Spellings \cup {""},
          calls_count \in {Some(n) : n \in 0..MaxRecorded} \cup {Absent},
          amount_usdc \in {Some(n) : n \in 0..MaxRecorded} \cup {Absent},
          tx_hash \in {"", "0xabc"} :
          Record(user_address, calls_count, amount_usdc, tx_hash)
    \/ \E h \in ChatReqs, session_id \in SessionIds \cup {""},
          user_address \in Spellings \cup {""} :
          ChatReceive(h, session_id, user_address)
    \/ \E h \in ChatReqs : ChatSelect(h)
    \/ \E h \in ChatReqs : ChatUpdate(h)
    \/ \E h \in ChatReqs : ChatDbError(h)

ChatSpec == Init /\ [][ChatNext]_vars

\* ------------------------------------------------ the storage routes
\* The environment variable the upload handler requires.
PINATA_JWT == "jwt"

\* The active rows of a user for a content id:
\* .eq('user_address', u).eq('file_cid', cid).is('deleted_at', null).
ActiveRows(user_address, cid) ==
    {k \in DOMAIN storage_files :
        /\ storage_files[k].user_address = user_address
        /\ storage_files[k].file_cid = cid
        /\ storage_files[k].deleted_at = Absent}

\* .order('created_at', {ascending: false}).limit(1): the rows the statement
\* may return, those of the greatest created_at (one of them, when several
\* share it).
Latest(rows) ==
    {k \in rows : \A j \in rows : storage_files[j].created_at <= storage_files[k].created_at}

\* The values of created_at: the database's clock gives the n-th insert the
\* time n, and a request may state any time from before the first insert to
\* after the last.
CreatedAts == 0..(Cardinality(UploadReqs) + 1)

\* POST /upload up to its first await: the configuration and the two fields,
\* the address lower-cased before it is tested.
UploadReceive(p, file, user_address) ==
    /\ upload[p].pc = "idle"
    /\ upload' = [upload EXCEPT ![p] =
          IF PINATA_JWT = ""
          THEN [@ EXCEPT !.pc = "done",
                         !.res = [@ EXCEPT !.code = 500,
                                           !.error = "Missing PINATA_JWT in env"]]
          ELSE IF file = Absent
          THEN [@ EXCEPT !.pc = "done",
                         !.res = [@ EXCEPT !.code = 400,
                                           !.error = "file is required (multipart/form-data)"]]
          ELSE IF toLowerCase(user_address) = ""
          THEN [@ EXCEPT !.pc = "done", !.file = file,
                         !.res = [@ EXCEPT !.code = 400,
                                           !.error = "user_address is required"]]
          ELSE [@ EXCEPT !.pc = "pin", !.file = file,
                         !.user_address = toLowerCase(user_address)]]
    /\ UNCHANGED <<ledgerVars, now, lastTx, calls, frame, _status, api_sessions,
                   chat, storage_files, deletion>>

\* Pinata answers with the content id of the file.
UploadPinned(p) ==
    /\ upload[p].pc = "pin"
    /\ upload' = [upload EXCEPT ![p] =
          [@ EXCEPT !.pc = "select", !.cid = Some(IpfsHash(upload[p].file[1]))]]
    /\ UNCHANGED <<ledgerVars, now, lastTx, calls, frame, _status, api_sessions,
                   chat, storage_files, deletion>>

\* Pinata answers without a content id (502) or the request throws (500).
UploadPinFails(p, code) ==
    /\ upload[p].pc = "pin"
    /\ upload' = [upload EXCEPT ![p] =
          [@ EXCEPT !.pc = "done",
                    !.res = [@ EXCEPT !.code = code,
                                      !.error = IF code = 502
                                                THEN "Pinata did not return a CID"
                                                ELSE "Upload failed"]]]
    /\ UNCHANGED <<ledgerVars, now, lastTx, calls, frame, _status, api_sessions,
                   chat, storage_files, deletion>>

\* The idempotency select resolves: an active row of that user and content id
\* is returned, marked idempotent; with none the handler goes on to insert.
UploadSelect(p) ==
    /\ upload[p].pc = "select"
    /\ LET existingRows == ActiveRows(upload[p].user_address, upload[p].cid[1])
       IN IF existingRows # {}
          THEN \E k \in Latest(existingRows) :
                  upload' = [upload EXCEPT ![p] =
                     [@ EXCEPT !.pc = "done",
                               !.res = [@ EXCEPT !.code = 200,
                                                 !.file = Some(storage_files[k]),
                                                 !.idempotent = TRUE]]]
          ELSE upload' = [upload EXCEPT ![p] = [@ EXCEPT !.pc = "insert"]]
    /\ UNCHANGED <<ledgerVars, now, lastTx, calls, frame, _status, api_sessions,
                   chat, storage_files, deletion>>

\* The insert resolves: a new active row, returned without the idempotent mark.
UploadInsert(p) ==
    /\ upload[p].pc = "insert"
    /\ LET row == [id |-> Len(storage_files) + 1,
                   user_address |-> upload[p].user_address,
                   file_cid |-> upload[p].cid[1],
                   created_at |-> Len(storage_files) + 1,
                   deleted_at |-> Absent]
       IN /\ storage_files' = Append(storage_files, row)
          /\ upload' = [upload EXCEPT ![p] =
                [@ EXCEPT !.pc = "done",
                          !.res = [@ EXCEPT !.code = 200, !.file = Some(row)]]]
    /\ UNCHANGED <<ledgerVars, now, lastTx, calls, frame, _status, api_sessions,
                   chat, deletion>>

\* Either statement fails in the database: the handler answers 500 and the
\* table is as it was.
UploadDbError(p) ==
    /\ upload[p].pc \in {"select", "insert"}
    /\ upload' = [upload EXCEPT ![p] =
          [@ EXCEPT !.pc = "done",
                    !.res = [@ EXCEPT !.code = 500, !.error = "database error"]]]
    /\ UNCHANGED <<ledgerVars, now, lastTx, calls, frame, _status, api_sessions,
                   chat, storage_files, deletion>>

\* The rows of that id and owner: .eq('id', id).eq('user_address', addr).
RowsOf(id, addr) ==
    {k \in DOMAIN storage_files :
        storage_files[k].id = id /\ storage_files[k].user_address = addr}

\* POST /delete up to its first await: the two required fields (an id of 0 is
\* as good as none), the address lower-cased before it is tested.
DeleteReceive(d, id, user_address) ==
    /\ deletion[d].pc = "idle"
    /\ deletion' = [deletion EXCEPT ![d] =
          IF id = 0
          THEN [@ EXCEPT !.pc = "done",
                         !.res = [@ EXCEPT !.code = 400, !.error = "id is required"]]
          ELSE IF toLowerCase(user_address) = ""
          THEN [@ EXCEPT !.pc = "done", !.id = id,
                         !.res = [@ EXCEPT !.code = 400,
                                           !.error = "user_address is required"]]
          ELSE [@ EXCEPT !.pc = "select", !.id = id,
                         !.user_address = toLowerCase(user_address)]]
    /\ UNCHANGED <<ledgerVars, now, lastTx, calls, frame, _status, api_sessions,
                   chat, storage_files, upload>>

\* The select resolves: the row of that id and owner, deleted or not, or 404.
DeleteSelect(d) ==
    /\ deletion[d].pc = "select"
    /\ deletion' = [deletion EXCEPT ![d] =
          IF RowsOf(deletion[d].id, deletion[d].user_address) = {}
          THEN [@ EXCEPT !.pc = "done",
                         !.res = [@ EXCEPT !.code = 404, !.error = "File not found"]]
          ELSE [@ EXCEPT !.pc = "update"]]
    /\ UNCHANGED <<ledgerVars, now, lastTx, calls, frame, _status, api_sessions,
                   chat, storage_files, upload>>

\* The update resolves: the row of that id and owner, as the table is now, is
\* soft-deleted, and the handler answers 200 with it (or with null).
DeleteUpdate(d) ==
    /\ deletion[d].pc = "update"
    /\ LET rows == RowsOf(deletion[d].id, deletion[d].user_address)
       IN /\ storage_files' = [k \in DOMAIN storage_files |->
                IF k \in rows
                THEN [storage_files[k] EXCEPT !.deleted_at = Some("now")]
                ELSE storage_files[k]]
          /\ deletion' = [deletion EXCEPT ![d] =
                [@ EXCEPT !.pc = "done",
                          !.res = [@ EXCEPT !.code = 200,
                                            !.file = IF rows = {} THEN Absent
                                                     ELSE Some(storage_files'[CHOOSE k \in rows : TRUE])]]]
    /\ UNCHANGED <<ledgerVars, now, lastTx, calls, frame, _status, api_sessions,
                   chat, upload>>

\* Either statement fails in the database: the handler answers 500 and the
\* table is as it was.
DeleteDbError(d) ==
    /\ deletion[d].pc \in {"select", "update"}
    /\ deletion' = [deletion EXCEPT ![d] =
          [@ EXCEPT !.pc = "done",
                    !.res = [@ EXCEPT !.code = 500, !.error = "database error"]]]
    /\ UNCHANGED <<ledgerVars, now, lastTx, calls, frame, _status, api_sessions,
                   chat, storage_files, upload>>

\* The fields a POST /update request may carry: the rest of the body once id
\* and user_address are taken out of it, so never one of those two. They are
\* written to the row as they come: deleted_at as null or as a timestamp of the
\* caller's choice, file_cid as any content id, created_at as any time. (The
\* columns the rows here do not keep, such as filename or tx_hash, are written
\* the same way.)
UpdateFields ==
    {[deleted_at |-> Absent], [deleted_at |-> Some("2026-01-01")]}
        \cup {[file_cid |-> IpfsHash(f)] : f \in Files}
        \cup {[created_at |-> t] : t \in CreatedAts}

\* POST /update: the row of that id and lower-cased owner gets the fields of
\* the request. A request without id or address is answered 400, and one that
\* matches no row writes nothing.
StorageUpdate(id, user_address, fields) ==
    /\ id # 0 /\ toLowerCase(user_address) # ""
    /\ RowsOf(id, toLowerCase(user_address)) # {}
    /\ storage_files' = [k \in DOMAIN storage_files |->
          IF k \in RowsOf(id, toLowerCase(user_address))
          THEN [col \in DOMAIN storage_files[k] |->
                   IF col \in DOMAIN fields THEN fields[col] ELSE storage_files[k][col]]
          ELSE storage_files[k]]
    /\ UNCHANGED <<ledgerVars, now, lastTx, calls, frame, _status, api_sessions,
                   chat, upload, deletion>>

UploadNext ==
    \/ \E p \in UploadReqs, file \in {Some(f) : f \in Files} \cup {Absent},
          user_address \in Spellings \cup {""} :
          UploadReceive(p, file, user_address)
    \/ \E p \in UploadReqs : UploadPinned(p)
    \/ \E p \in UploadReqs, code \in {500, 502} : UploadPinFails(p, code)
    \/ \E p \in UploadReqs : UploadSelect(p)
    \/ \E p \in UploadReqs : UploadInsert(p)
    \/ \E p \in UploadReqs : UploadDbError(p)
    \/ \E d \in DeleteReqs, id \in 0..Cardinality(UploadReqs),
          user_address \in Spellings \cup {""} :
          DeleteReceive(d, id, user_address)
    \/ \E d \in DeleteReqs : DeleteSelect(d)
    \/ \E d \in DeleteReqs : DeleteUpdate(d)
    \/ \E d \in DeleteReqs : DeleteDbError(d)
    \/ \E id \in 0..Cardinality(UploadReqs), user_address \in Spellings \cup {""},
          fields \in UpdateFields :
          StorageUpdate(id, user_address, fields)

UploadSpec == Init /\ [][UploadNext]_vars

\* ================================================================ claims
RECURSIVE SumAmounts(_, _)
\* The sum of the amounts of the PaymentExecuted events of payer a in log.
SumAmounts(log, a) ==
    IF log = <<>> THEN 0
    ELSE (IF Head(log).payer = a THEN Head(log).amount ELSE 0) + SumAmounts(Tail(log), a)

SettledAmount(a) == SumAmounts(executed, a)
SettledCount(a) == Cardinality({k \in DOMAIN executed : executed[k].payer = a})
SessionCommits(s) == Cardinality({k \in DOMAIN executed : executed[k].sessionId = s})
Rejections ==
    {"Intent expired", "Already settled", "Invalid signature", "Invalid nonce",
     "Insufficient balance"}

\* C1: in every reachable state of the ledger, whatever deposits, withdrawals
\* and settlements were sent and in whatever order, every account's escrow
\* balance is >= 0.
C1_BalanceNonNegative == \A a \in Accounts : escrowBalances[a] >= 0

\* An account emptied by a settlement, and a further settlement refused for it.
C1_Witness ==
    \E a \in Accounts :
        escrowBalances[a] = 0 /\ SettledAmount(a) > 0 /\ withdrawn[a] > 0
            /\ lastTx = "Insufficient balance"

\* C2: an account's balance is the sum of its successful deposits minus the sum
\* of its successful withdrawals minus the sum of the amounts of its successful
\* settlements; rejected operations contribute nothing.
C2_BalanceIsSum ==
    \A a \in Accounts :
        escrowBalances[a] = deposited[a] - withdrawn[a] - SettledAmount(a)

\* An account with deposits, a withdrawal and a settlement behind it, just after
\* a rejected settlement.
C2_Witness ==
    \E a \in Accounts :
        /\ deposited[a] = MaxDeposited /\ withdrawn[a] > 0 /\ SettledAmount(a) > 0
        /\ lastTx \in Rejections

\* C3: a settled session stays settled in every later state, and at most one
\* settlement ever commits for a sessionId.
C3_SettledOnce ==
    [][\A s \in Sessions :
          /\ settledSessions[s] => settledSessions'[s]
          /\ SessionCommits(s)' <= 1]_vars

\* A settled session for which a second settlement was just refused.
C3_Witness ==
    \E s \in Sessions :
        settledSessions[s] /\ SessionCommits(s) = 1 /\ lastTx = "Already settled"

\* C4: every account's nonce equals the number of its successful settlements,
\* starting at 0; rejected intents never advance it.
C4_NonceCountsSettlements == \A a \in Accounts : nonces[a] = SettledCount(a)

\* Two settlements of one account, and a rejected intent after them.
C4_Witness ==
    \E a \in Accounts : nonces[a] = 2 /\ SettledCount(a) = 2 /\ lastTx \in Rejections

\* The five conditions of a settlement of intent i, on the current state.
FiveConditions(i) ==
    /\ i.signature = Sign(i.payer, Digest(DomainSeparator, FieldsOf(i)))
    /\ i.nonce = nonces[i.payer]
    /\ now <= i.deadline
    /\ ~settledSessions[i.sessionId]
    /\ escrowBalances[i.payer] >= i.amount

\* C5: whenever a settlement commits, the five conditions held on the ledger
\* state it committed on: signature by the payer over exactly the intent's
\* fields, nonce equal to the payer's, time <= deadline, session not settled,
\* balance >= amount.
C5_CommitRequiresAll ==
    [][Len(executed') > Len(executed) =>
          \A i \in Intents : DirectExecute(i) => FiveConditions(i)]_vars

\* A settlement has just committed.
C5_Witness == lastTx = "ok" /\ Len(executed) >= 1

\* A session is marked settled exactly when its settlement's nonce increment and
\* debit are in the state too.
SettlementsWhole ==
    /\ \A s \in Sessions : settledSessions[s] <=> SessionCommits(s) = 1
    /\ \A a \in Accounts : nonces[a] = SettledCount(a)
    /\ \A a \in Accounts :
          escrowBalances[a] = deposited[a] - withdrawn[a] - SettledAmount(a)

\* C7: settle is all-or-nothing: in every state a session is marked settled iff
\* the nonce increment and the debit of its settlement are applied, and a settle
\* rejected for insufficient balance leaves nonces, settled sessions and balances
\* as they were.
C7_AllOrNothing ==
    [][/\ SettlementsWhole'
       /\ UNCHANGED ledgerVars
            \/ ~(/\ lastTx' = "Insufficient balance"
                 /\ \E i \in Intents : DirectExecute(i))]_vars

\* A settlement was just rejected for insufficient balance, after another one
\* had committed.
C7_Witness ==
    lastTx = "Insufficient balance" /\ \E s \in Sessions : settledSessions[s]

\* ------------------------------------------------------- relayer claims
\* How a client reads the response of a finished call.
Outcome(res) ==
    IF res.code = 200 THEN "Accepted"
    ELSE IF res.error = "Missing required fields" THEN "MalformedRequest"
    ELSE IF res.error = "Insufficient escrow balance" THEN "InsufficientBalance"
    ELSE IF res.error = "Session already settled" THEN "AlreadySettled"
    ELSE IF res.reason = "Intent expired" THEN "Expired"
    ELSE IF res.reason = "Already settled" THEN "AlreadySettled"
    ELSE IF res.reason = "Invalid signature" THEN "InvalidSignature"
    ELSE IF res.reason = "Invalid nonce" THEN "NonceMismatch"
    ELSE IF res.reason = "Insufficient balance" THEN "InsufficientBalance"
    ELSE "SubmissionFailed"

Done(c) == calls[c].pc = "done"
Answered(c) == Done(c) /\ calls[c].res.error # "network error"
NoWithdrawals == \A a \in Accounts : withdrawn[a] = 0

\* The ledger has evaluated the call's intent, in the simulation that precedes
\* sending or in the mined transaction; Verdict is what it said.
Evaluated(c) ==
    \/ calls[c].tx \notin {"none", "pending"}
    \/ Done(c) /\ calls[c].res.code = 500 /\ calls[c].res.reason # "none"

Verdict(c) == IF calls[c].tx \notin {"none", "pending"} THEN calls[c].tx ELSE calls[c].res.reason

\* C6: the same intent sent twice through the relayer, with nothing else
\* touching the ledger, gets exactly one Accepted and one AlreadySettled and is
\* debited once, whatever the starting balance (also when the balance left after
\* the first settlement is smaller than the amount).
C6_ResubmitAlreadySettled ==
    \A c, d \in Calls :
        (/\ c # d /\ Answered(c) /\ Answered(d) /\ NoWithdrawals
         /\ IntentOf(c) = IntentOf(d)
         /\ Outcome(calls[c].res) = "Accepted")
        => /\ Outcome(calls[d].res) = "AlreadySettled"
           /\ SessionCommits(IntentOf(c).sessionId) = 1

\* C8: of two concurrent calls with validly signed intents of one payer, with
\* the same nonce and different sessions, that both passed the pre-check, at
\* most one commits; the ledger rejects the other for its nonce, and the
\* relayer answers that call with that rejection, NonceMismatch, not with a
\* success and not with a failure that names no reason.
C8_SameNonceLoserReported ==
    \A c, d \in Calls :
        (/\ c # d /\ Evaluated(c) /\ Evaluated(d)
         /\ IntentOf(c).payer = IntentOf(d).payer
         /\ IntentOf(c).nonce = IntentOf(d).nonce
         /\ IntentOf(c).sessionId # IntentOf(d).sessionId)
        => /\ ~(Verdict(c) = "ok" /\ Verdict(d) = "ok")
           /\ Verdict(c) = "ok" =>
                /\ Verdict(d) = "Invalid nonce"
                /\ Answered(d) => Outcome(calls[d].res) = "NonceMismatch"

\* The ledger the two calls started on: nothing settled yet, and without
\* withdrawals the balances are the deposits.
Ledger0 ==
    [escrowBalances |-> deposited,
     nonces |-> [a \in Accounts |-> 0],
     settledSessions |-> [s \in Sessions |-> FALSE],
     usdc |-> [h \in Holders |->
                 IF h \in Accounts THEN usdc[h]
                 ELSE IF h = EscrowAddr THEN usdc[EscrowAddr] + usdc[serviceWallet]
                 ELSE 0],
     executed |-> <<>>,
     deposited |-> deposited,
     withdrawn |-> [a \in Accounts |-> 0]]

\* executePayment for intent run alone on ledger L at time t, with no failure of
\* the environment: its response and the ledger it leaves.
Solo(L, t, intent) ==
    LET balance == L.escrowBalances[intent.payer]
        r == executePaymentIntent(L, intent, t)
        res(code, error, reason, detail) ==
            [code |-> code, error |-> error, reason |-> reason, detail |-> detail]
    IN  IF balance < intent.amount
        THEN [res |-> res(400, "Insufficient escrow balance", "none",
                          <<formatUnits(balance, 6), formatUnits(intent.amount, 6)>>),
              ledger |-> L]
        ELSE IF L.settledSessions[intent.sessionId]
        THEN [res |-> res(400, "Session already settled", "none", <<>>), ledger |-> L]
        ELSE IF r.status = "ok"
        THEN [res |-> res(200, "none", "none", <<formatUnits(intent.amount, 6)>>),
              ledger |-> r.ledger]
        ELSE [res |-> res(500, "execution reverted", r.status, <<>>), ledger |-> L]

\* Call c got the response, and its payer the balance and nonce, of a run alone.
AsIfAlone(c) ==
    LET solo == Solo(Ledger0, 0, IntentOf(c))
        payer == IntentOf(c).payer
    IN  /\ calls[c].res = solo.res
        /\ escrowBalances[payer] = solo.ledger.escrowBalances[payer]
        /\ nonces[payer] = solo.ledger.nonces[payer]

\* C9 as stated: two concurrent calls for different payers are independent,
\* whatever sessionIds their intents carry: each gets the outcome, and its payer
\* the balance and nonce, of a run alone.
C9_PayersIndependent ==
    \A c, d \in Calls :
        (/\ c # d /\ Answered(c) /\ calls[d].pc # "idle" /\ NoWithdrawals
         /\ IntentOf(c).payer # IntentOf(d).payer)
        => AsIfAlone(c)

\* C9, amended: two concurrent calls for different payers and different
\* sessions are independent: each gets the outcome, and its payer the balance and
\* nonce, of a run alone.
C9_PayersAndSessionsIndependent ==
    \A c, d \in Calls :
        (/\ c # d /\ Answered(c) /\ calls[d].pc # "idle" /\ NoWithdrawals
         /\ IntentOf(c).payer # IntentOf(d).payer
         /\ IntentOf(c).sessionId # IntentOf(d).sessionId)
        => AsIfAlone(c)

\* Two calls for different payers and sessions, both raced by nothing and both
\* accepted after their transactions were pending together or in turn.
C9_Witness ==
    /\ NoWithdrawals
    /\ \A c \in Calls : Done(c) /\ calls[c].res.code = 200
    /\ IntentOf("c1").payer # IntentOf("c2").payer
    /\ IntentOf("c1").sessionId # IntentOf("c2").sessionId

\* C10: an intent that passed the pre-check is never rejected by the ledger
\* unless an operation on its payer or session, or the passing of time, came
\* between the pre-check and the commit.
C10_PreCheckedNeverRejected ==
    \A c \in Calls : (Evaluated(c) /\ Verdict(c) # "ok") => calls[c].raced

\* C11: a success response is sent only for an intent whose settlement the ledger
\* committed in that call: its session is settled, by one PaymentExecuted event
\* with the intent's payer and amount, and what the response reports is that
\* amount; no call the ledger rejected and no call cut short by a failure of the
\* environment is answered with success.
C11_SuccessMeansCommitted ==
    \A c \in Calls :
        /\ (Done(c) /\ calls[c].res.code = 200) =>
              /\ calls[c].tx = "ok"
              /\ settledSessions[IntentOf(c).sessionId]
              /\ SessionCommits(IntentOf(c).sessionId) = 1
              /\ \E k \in DOMAIN executed :
                    executed[k] = [payer |-> IntentOf(c).payer,
                                   sessionId |-> IntentOf(c).sessionId,
                                   amount |-> IntentOf(c).amount]
              /\ calls[c].res.detail = <<formatUnits(IntentOf(c).amount, 6)>>
        /\ (Done(c) /\ Evaluated(c) /\ Verdict(c) # "ok") => calls[c].res.code = 500
        /\ (Done(c) /\ calls[c].tx \in {"none", "pending"}) => calls[c].res.code # 200

\* One call answered with success, the other, whose transaction was mined and
\* reverted, with a failure.
C11_Witness ==
    \E c, d \in Calls :
        /\ Done(c) /\ calls[c].res.code = 200
        /\ Done(d) /\ calls[d].tx \in Rejections /\ calls[d].res.code = 500

\* ------------------------------------- claims about the statements of settle
\* The five conditions of a settlement of intent i on ledger L at time t.
ConditionsOn(L, t, i) ==
    /\ t <= i.deadline
    /\ ~L.settledSessions[i.sessionId]
    /\ i.signature = Sign(i.payer, Digest(DomainSeparator, FieldsOf(i)))
    /\ i.nonce = L.nonces[i.payer]
    /\ L.escrowBalances[i.payer] >= i.amount

\* C12 as stated: every check of settle is evaluated before any state effect:
\* whenever a require is about to run, the state is still the one the call
\* started from.
C12_ChecksBeforeEffects ==
    frame.pc \in RequireStatements => Ledger = FrameEntry

\* C12, amended: the deadline, not-settled, signature and nonce checks run on
\* the state the call started from; the balance check runs after the nonce
\* increment and the settled-session insert and before the debit; the debit and
\* the transfer to the payee run only when all five checks hold, and a failed
\* check leaves the state the call started from.
C12_OnlyBalanceCheckAfterEffects ==
    /\ frame.pc \in RequireStatements \ {"balance"} => Ledger = FrameEntry
    /\ frame.pc = "balance" =>
          Ledger = [FrameEntry EXCEPT !.nonces[FrameIntent.payer] = @ + 1,
                                      !.settledSessions[FrameIntent.sessionId] = TRUE]
    /\ frame.pc \in {"debit", "safeTransfer"} =>
          /\ ConditionsOn(FrameEntry, now, FrameIntent)
          /\ usdc = FrameEntry.usdc /\ executed = FrameEntry.executed
    /\ (frame.pc = "done" /\ frame.status # "ok") => Ledger = FrameEntry

\* The balance check has failed after the two writes, which were undone.
C12_Witness ==
    /\ frame.pc = "done" /\ frame.status = "Insufficient balance"
    /\ ~settledSessions[FrameIntent.sessionId]
    /\ nonces[FrameIntent.payer] = FrameIntent.nonce

\* The fields a signature was made over.
SignedFields(sig) ==
    [payer |-> sig.digest[2], sessionId |-> sig.digest[3], amount |-> sig.digest[4],
     deadline |-> sig.digest[5], nonce |-> sig.digest[6]]

\* Intent i carries a signature its payer-to-be made for this deployment over
\* fields of which at least one differs from those i has now.
ChangedSinceSigned(i) ==
    /\ i.signature.digest[1] = DomainSeparator
    /\ i.signature.signer = SignedFields(i.signature).payer
    /\ SignedFields(i.signature) # FieldsOf(i)

\* The amount of a committed settlement is the signed one.
DebitIsSignedAmount ==
    (frame.pc = "done" /\ frame.status = "ok") =>
        /\ SignedFields(FrameIntent.signature) = FieldsOf(FrameIntent)
        /\ FrameIntent.signature.signer = FrameIntent.payer
        /\ FrameEntry.escrowBalances[FrameIntent.payer] - escrowBalances[FrameIntent.payer]
              = SignedFields(FrameIntent.signature).amount

\* C13 as stated: an intent one of whose fields was changed after it was validly
\* signed is rejected with InvalidSignature and no state changes; a committed
\* settlement debits exactly the signed amount.
C13_ChangedIntentInvalidSignature ==
    /\ (frame.pc = "done" /\ ChangedSinceSigned(FrameIntent)) =>
          frame.status = "Invalid signature" /\ Ledger = FrameEntry
    /\ DebitIsSignedAmount

\* C13, amended: an intent one of whose fields was changed after it was validly
\* signed is rejected and no state changes; the reason is InvalidSignature unless
\* the changed intent is expired or its session is already settled, which is
\* reported instead (Expired first); a committed settlement debits exactly the
\* signed amount.
C13_ChangedIntentRejected ==
    /\ (frame.pc = "done" /\ ChangedSinceSigned(FrameIntent)) =>
          /\ Ledger = FrameEntry
          /\ frame.status =
                IF now > FrameIntent.deadline THEN "Intent expired"
                ELSE IF FrameEntry.settledSessions[FrameIntent.sessionId]
                     THEN "Already settled"
                ELSE "Invalid signature"
    /\ DebitIsSignedAmount

\* An intent whose amount is not the signed one was refused for its signature,
\* although everything else about it would have passed.
C13_Witness ==
    /\ frame.pc = "done" /\ frame.status = "Invalid signature"
    /\ ChangedSinceSigned(FrameIntent)
    /\ SignedFields(FrameIntent.signature).amount # FrameIntent.amount
    /\ FrameIntent.nonce = nonces[FrameIntent.payer]
    /\ escrowBalances[FrameIntent.payer] >= FrameIntent.amount

\* Intent i carries its payer's signature over its own fields, made for another
\* deployment.
SignedForOtherDomain(i) ==
    /\ i.signature.digest[1] # DomainSeparator
    /\ i.signature.signer = i.payer
    /\ SignedFields(i.signature) = FieldsOf(i)

\* C14 as stated: an intent signed under another domain separator is rejected
\* with InvalidSignature and the state is unchanged.
C14_OtherDomainInvalidSignature ==
    (frame.pc = "done" /\ SignedForOtherDomain(FrameIntent)) =>
        frame.status = "Invalid signature" /\ Ledger = FrameEntry

\* C14, amended: an intent signed under another domain separator is rejected
\* and the state is unchanged; the reason is InvalidSignature unless the intent
\* is expired or its session already settled on this instance, which is
\* reported instead (Expired first).
C14_OtherDomainRejected ==
    (frame.pc = "done" /\ SignedForOtherDomain(FrameIntent)) =>
        /\ Ledger = FrameEntry
        /\ frame.status =
              IF now > FrameIntent.deadline THEN "Intent expired"
              ELSE IF FrameEntry.settledSessions[FrameIntent.sessionId]
                   THEN "Already settled"
              ELSE "Invalid signature"

\* An intent signed for the other deployment, acceptable here in every other
\* respect, was refused for its signature.
C14_Witness ==
    /\ frame.pc = "done" /\ frame.status = "Invalid signature"
    /\ SignedForOtherDomain(FrameIntent)
    /\ FrameIntent.nonce = nonces[FrameIntent.payer]
    /\ escrowBalances[FrameIntent.payer] >= FrameIntent.amount
    /\ FrameIntent.amount > 0

\* The checks intent i fails on ledger L at time t.
Failing(L, t, i) ==
    (IF t > i.deadline THEN {"Intent expired"} ELSE {})
    \cup (IF L.settledSessions[i.sessionId] THEN {"Already settled"} ELSE {})
    \cup (IF i.signature # Sign(i.payer, Digest(DomainSeparator, FieldsOf(i)))
          THEN {"Invalid signature"} ELSE {})
    \cup (IF i.nonce # L.nonces[i.payer] THEN {"Invalid nonce"} ELSE {})
    \cup (IF L.escrowBalances[i.payer] < i.amount THEN {"Insufficient balance"} ELSE {})

\* Expired, AlreadySettled, InvalidSignature, NonceMismatch, InsufficientBalance.
ReasonOrder ==
    <<"Intent expired", "Already settled", "Invalid signature", "Invalid nonce",
      "Insufficient balance">>

\* The first reason of ReasonOrder in set failing, "ok" when failing is empty.
FirstOf(failing) ==
    IF failing = {} THEN "ok"
    ELSE ReasonOrder[CHOOSE k \in DOMAIN ReasonOrder :
            /\ ReasonOrder[k] \in failing
            /\ \A j \in DOMAIN ReasonOrder : ReasonOrder[j] \in failing => k <= j]

\* C15: a settle call ends with the reason of the first failing check in the
\* order Expired, AlreadySettled, InvalidSignature, NonceMismatch,
\* InsufficientBalance, whatever combination of checks the intent fails; the
\* function taken as a whole gives the same answer as its statements.
C15_FirstFailingCheck ==
    frame.pc = "done" =>
        /\ frame.status = FirstOf(Failing(FrameEntry, now, FrameIntent))
        /\ executePaymentIntent(FrameEntry, FrameIntent, now) =
              [ledger |-> Ledger, status |-> frame.status]

\* An intent failing all five checks at once was refused as expired.
C15_Witness ==
    /\ frame.pc = "done" /\ frame.status = "Intent expired"
    /\ Cardinality(Failing(FrameEntry, now, FrameIntent)) = 5

\* ------------------------------------------------ claims about one call
\* The request of call c is structurally invalid: no intent, no service type,
\* an amount that is not numeric or one that is not strictly positive.
Malformed(c) ==
    \/ calls[c].paymentIntent = Absent
    \/ calls[c].serviceType = ""
    \/ calls[c].normalizedAmount = Absent
    \/ IntentOf(c).amount <= 0

\* C16: a structurally invalid request (missing intent, missing service type,
\* amount not numeric or not strictly positive) is answered MalformedRequest
\* at once, before any read of the ledger and without any submission.
C16_MalformedRejectedUntouched ==
    \A c \in Calls :
        (calls[c].pc # "idle" /\ Malformed(c)) =>
            /\ Done(c) /\ calls[c].tx = "none"
            /\ calls[c].res.code = 400
            /\ Outcome(calls[c].res) = "MalformedRequest"

\* C17: when the balance the pre-check reads is smaller than the intent's
\* amount, the call ends there with InsufficientBalance, reporting the balance
\* read and the amount required; it sends no transaction, then or later, and the
\* step changes no nonce, balance or settled session.
C17_InsufficientAtPreCheck ==
    [][\A c \in Calls :
          /\ (/\ calls[c].pc = "getBalance" /\ calls'[c].pc # "getBalance"
              /\ calls'[c].res.error # "network error"
              /\ escrowBalances[IntentOf(c).payer] < IntentOf(c).amount)
             => /\ calls'[c].pc = "done"
                /\ calls'[c].res =
                      [code |-> 400, error |-> "Insufficient escrow balance",
                       reason |-> "none",
                       detail |-> <<formatUnits(escrowBalances[IntentOf(c).payer], 6),
                                    formatUnits(IntentOf(c).amount, 6)>>]
                /\ UNCHANGED ledgerVars
          /\ calls'[c].res.error = "Insufficient escrow balance"
                => calls'[c].pc = "done" /\ calls'[c].tx = "none"]_vars

\* A call was refused at the pre-check: available 0, required 1.
C17_Witness ==
    \E c \in Calls :
        /\ Done(c) /\ Outcome(calls[c].res) = "InsufficientBalance"
        /\ calls[c].res.code = 400
        /\ calls[c].res.detail = <<formatUnits(0, 6), formatUnits(1, 6)>>
        /\ nonces[IntentOf(c).payer] = 0

\* Call c completes a read of the ledger in this step, and the read succeeds.
Reads(c, pc) ==
    /\ calls[c].pc = pc /\ calls'[c].pc # pc
    /\ calls'[c].res.error # "network error"

\* C18: a call that reads the ledger while its intent's session is settled is
\* answered AlreadySettled and never sends a transaction.
C18_SettledAlwaysAlreadySettled ==
    [][\A c \in Calls :
          \A pc \in {"getBalance", "isSessionSettled"} :
              (Reads(c, pc) /\ settledSessions[IntentOf(c).sessionId]) =>
                  /\ calls'[c].pc # "submit" /\ calls'[c].tx = "none"
                  /\ calls'[c].pc = "done" => Outcome(calls'[c].res) = "AlreadySettled"]_vars

\* The status code of the pre-check's rejections.
PreCheckCode == 400

\* C19: a rejection for insufficient balance or for an already settled session
\* that only the ledger detects (the condition arose after the pre-check) is
\* answered like the pre-check's rejection for that condition: same reason, same
\* kind of response.
C19_LedgerRejectionLikePreCheck ==
    \A c \in Calls :
        (Answered(c) /\ Evaluated(c)) =>
            /\ Verdict(c) = "Insufficient balance" =>
                  /\ Outcome(calls[c].res) = "InsufficientBalance"
                  /\ calls[c].res.code = PreCheckCode
            /\ Verdict(c) = "Already settled" =>
                  /\ Outcome(calls[c].res) = "AlreadySettled"
                  /\ calls[c].res.code = PreCheckCode

\* C20: every failed call carries a reason of the taxonomy, and a call the
\* ledger rejected is answered with the ledger's reason, never with what a
\* failure of the submission or of the confirmation wait is answered with.
C20_RejectionNotSubmissionFailed ==
    \A c \in Calls :
        /\ (Done(c) /\ calls[c].res.code # 200) =>
              Outcome(calls[c].res) \in
                  {"MalformedRequest", "Expired", "AlreadySettled", "InvalidSignature",
                   "NonceMismatch", "InsufficientBalance", "SubmissionFailed"}
        /\ (Answered(c) /\ Evaluated(c) /\ Verdict(c) \in Rejections) =>
              /\ calls[c].res.reason = Verdict(c)
              /\ Outcome(calls[c].res) # "SubmissionFailed"

\* ------------------------------------------------ nonces and deadlines
\* The reason a settle call gives for an intent that fails its nonce check: that
\* of an earlier failing check if there is one.
ReasonUpToNonce(L, t, i) ==
    IF t > i.deadline THEN "Intent expired"
    ELSE IF L.settledSessions[i.sessionId] THEN "Already settled"
    ELSE IF i.signature # Sign(i.payer, Digest(DomainSeparator, FieldsOf(i)))
         THEN "Invalid signature"
    ELSE "Invalid nonce"

\* The settle call in progress ends in this step.
FrameEnds == frame.pc \notin {"idle", "done"} /\ frame'.pc = "done"

\* A settlement is applied only by the call that carries it, and only when its
\* nonce is the payer's at the start of that call: nothing is kept for later.
NothingQueued ==
    /\ Len(executed') > Len(executed) =>
          /\ frame.pc = "safeTransfer"
          /\ FrameIntent.nonce = FrameEntry.nonces[FrameIntent.payer]
          /\ executed' = Append(executed, [payer |-> FrameIntent.payer,
                                           sessionId |-> FrameIntent.sessionId,
                                           amount |-> FrameIntent.amount])
    /\ \A a \in Accounts :
          nonces'[a] # nonces[a] =>
              /\ frame.pc \notin {"idle", "done"}
              /\ a = FrameIntent.payer
              /\ FrameIntent.nonce = FrameEntry.nonces[a]

\* C21 as stated: every intent whose nonce differs from the payer's current
\* nonce, lower or higher, is rejected with NonceMismatch.
C21_NonceMismatchAlways ==
    [][(FrameEnds /\ FrameIntent.nonce # FrameEntry.nonces[FrameIntent.payer]) =>
          frame'.status = "Invalid nonce"]_vars

\* C21, amended: every intent whose nonce differs from the payer's current
\* nonce, lower or higher, is rejected and the state is unchanged; the reason is
\* NonceMismatch unless the intent is expired, its session settled or its
\* signature invalid, which is reported instead (in that order). A rejected
\* intent is not queued: a settlement is applied only by a call that carries it
\* while the payer's nonce equals the intent's.
C21_NonceMismatchRejected ==
    [][/\ (FrameEnds /\ FrameIntent.nonce # FrameEntry.nonces[FrameIntent.payer]) =>
             /\ Ledger' = FrameEntry
             /\ frame'.status = ReasonUpToNonce(FrameEntry, now, FrameIntent)
       /\ NothingQueued]_vars

\* The replay of a consumed nonce, validly signed for a fresh session and not
\* expired, was refused for its nonce.
C21_Witness ==
    /\ frame.pc = "done" /\ frame.status = "Invalid nonce"
    /\ FrameIntent.nonce < nonces[FrameIntent.payer]
    /\ ValidSig(FrameIntent)
    /\ ~settledSessions[FrameIntent.sessionId]
    /\ escrowBalances[FrameIntent.payer] >= FrameIntent.amount

\* C22: the deadline is inclusive: a settle call for an otherwise valid intent
\* commits when the current time equals the deadline; a call at any later time
\* is rejected with Expired and changes nothing; time never goes back, so an
\* expired intent stays rejected.
C22_DeadlineInclusive ==
    [][/\ now' >= now
       /\ FrameEnds =>
             /\ now > FrameIntent.deadline =>
                   frame'.status = "Intent expired" /\ Ledger' = FrameEntry
             /\ (now = FrameIntent.deadline /\ ConditionsOn(FrameEntry, now, FrameIntent)) =>
                   /\ frame'.status = "ok"
                   /\ Len(executed') = Len(FrameEntry.executed) + 1]_vars

\* An intent was settled in the block whose time is its deadline, after time
\* had moved on to it.
C22_Witness ==
    /\ frame.pc = "done" /\ frame.status = "ok"
    /\ now = FrameIntent.deadline /\ now > 0
    /\ settledSessions[FrameIntent.sessionId]

\* ------------------------------------------------ the effects of a settlement
\* Call c leaves program point pc in this step, not by a failure of the
\* environment.
Leaves(c, pc) ==
    /\ calls[c].pc = pc /\ calls'[c].pc # pc
    /\ calls'[c].res.error # "network error"

\* The transaction of call c is executed by the ledger in this step.
Mined(c) == calls[c].tx = "pending" /\ calls'[c].tx # "pending"

\* What the pre-check of a call established still holds while nothing has
\* touched its payer or its session.
PreCheckStands ==
    \A c \in Calls :
        (InWindow(calls[c]) /\ ~calls[c].raced) =>
            /\ escrowBalances[IntentOf(c).payer] >= IntentOf(c).amount
            /\ calls[c].pc # "isSessionSettled" => ~settledSessions[IntentOf(c).sessionId]

\* The ledger after the settlement of intent i: the payer's balance reduced by
\* the amount, its nonce increased by one, the session settled, the amount moved
\* from the contract to the service wallet, one PaymentExecuted event.
SettledExactly(i) ==
    /\ escrowBalances' = [escrowBalances EXCEPT ![i.payer] = @ - i.amount]
    /\ nonces' = [nonces EXCEPT ![i.payer] = @ + 1]
    /\ settledSessions' = [settledSessions EXCEPT ![i.sessionId] = TRUE]
    /\ usdc' = [usdc EXCEPT ![EscrowAddr] = @ - i.amount, ![serviceWallet] = @ + i.amount]
    /\ executed' = Append(executed, [payer |-> i.payer, sessionId |-> i.sessionId,
                                     amount |-> i.amount])
    /\ UNCHANGED <<deposited, withdrawn>>

\* C23: for an intent that satisfies all five conditions, with no other
\* operation touching the payer's account or the session, execute returns
\* Accepted and the ledger has the payer's balance reduced by exactly the amount,
\* the payer's nonce increased by exactly 1, the session settled and the service
\* wallet credited exactly the amount. Step by step: while the five conditions
\* hold, each read of the pre-check passes, the submission is sent, the mined
\* transaction commits with exactly these effects, and the confirmed call is
\* answered with success; a call nothing has touched keeps what its pre-check
\* established.
C23_ValidIntentSettlesExactly ==
    [][/\ PreCheckStands'
       /\ \A c \in Calls :
             /\ (Leaves(c, "getBalance") /\ FiveConditions(IntentOf(c))) =>
                   calls'[c].pc = "isSessionSettled" /\ UNCHANGED ledgerVars
             /\ (Leaves(c, "isSessionSettled") /\ FiveConditions(IntentOf(c))) =>
                   calls'[c].pc = "submit" /\ UNCHANGED ledgerVars
             /\ (Leaves(c, "submit") /\ FiveConditions(IntentOf(c))) =>
                   /\ calls'[c].pc = "wait" /\ calls'[c].tx = "pending"
                   /\ UNCHANGED ledgerVars
             /\ (Mined(c) /\ FiveConditions(IntentOf(c))) =>
                   calls'[c].tx = "ok" /\ SettledExactly(IntentOf(c))
             /\ (Leaves(c, "wait") /\ calls[c].tx = "ok") =>
                   /\ calls'[c].pc = "done"
                   /\ Outcome(calls'[c].res) = "Accepted"
                   /\ UNCHANGED ledgerVars]_vars

\* A call nothing touched was accepted; its payer's balance went from the
\* amount to 0, its nonce to one more than the intent's, the service wallet
\* holds the amount.
C23_Witness ==
    \E c \in Calls :
        /\ Done(c) /\ Outcome(calls[c].res) = "Accepted" /\ ~calls[c].raced
        /\ calls[c].tx = "ok"
        /\ deposited[IntentOf(c).payer] = IntentOf(c).amount
        /\ escrowBalances[IntentOf(c).payer] = 0
        /\ nonces[IntentOf(c).payer] = IntentOf(c).nonce + 1
        /\ usdc[serviceWallet] = IntentOf(c).amount
        /\ calls[CHOOSE d \in Calls : d # c].pc = "idle"

\* C24: every settlement that commits on the ledger has a strictly positive
\* amount: an intent with amount 0 never consumes the payer's nonce or marks its
\* session settled.
C24_CommittedAmountPositive ==
    \A k \in DOMAIN executed : executed[k].amount > 0

\* ------------------------------------------------ deposits and withdrawals
\* C25: withdraw succeeds only when the caller's balance is >= the amount and
\* the amount is > 0, and then takes exactly the amount from that balance; a
\* rejected withdraw or deposit leaves the whole state as it was; however
\* withdrawals and settlements of an account interleave, what they have taken
\* out together never exceeds what the account deposited.
C25_WithdrawWithinBalance ==
    /\ \A a \in Accounts, amount \in Amounts :
          LET w == withdraw(Ledger, a, amount)
              d == deposit(Ledger, a, amount)
          IN  /\ w.status = "ok" =>
                    /\ amount > 0 /\ escrowBalances[a] >= amount
                    /\ w.ledger.escrowBalances = [escrowBalances EXCEPT ![a] = @ - amount]
              /\ w.status # "ok" => w.ledger = Ledger
              /\ d.status # "ok" => d.ledger = Ledger
    /\ \A a \in Accounts : withdrawn[a] + SettledAmount(a) <= deposited[a]

\* An account that has withdrawn and settled all it deposited, so that a further
\* withdrawal is refused while the contract still holds another account's funds.
C25_Witness ==
    \E a, b \in Accounts :
        /\ withdrawn[a] > 0 /\ SettledAmount(a) > 0
        /\ withdrawn[a] + SettledAmount(a) = deposited[a]
        /\ withdraw(Ledger, a, 1).status = "Insufficient balance"
        /\ deposit(Ledger, a, 1).status = "ERC20: transfer failed"
        /\ escrowBalances[b] > 0

\* ------------------------------------------------ the course of one call
\* The program points of executePayment, in the order the handler passes them.
PcRank(pc) ==
    CASE pc = "idle" -> 0
      [] pc = "getBalance" -> 1
      [] pc = "isSessionSettled" -> 2
      [] pc = "submit" -> 3
      [] pc = "wait" -> 4
      [] pc = "done" -> 5

\* C26: execute never retries: a call reaches contract.executePaymentIntent at
\* most once and sends at most one transaction, whatever the outcome of the
\* submission or of the confirmation wait: the handler never goes back to an
\* earlier point, a transaction is sent only from the submission point by a call
\* that has sent none, and a call that has left the submission point with a
\* failure has sent nothing and never will.
C26_NeverRetries ==
    [][\A c \in Calls :
          /\ PcRank(calls'[c].pc) >= PcRank(calls[c].pc)
          /\ calls[c].pc \in {"wait", "done"} => calls'[c].pc # "submit"
          /\ (calls'[c].tx = "pending" /\ calls[c].tx # "pending") =>
                calls[c].tx = "none" /\ calls[c].pc = "submit" /\ calls'[c].pc = "wait"
          /\ calls[c].tx # "none" => calls'[c].tx # "none"
          /\ Mined(c) => calls[c].pc \in {"wait", "done"}]_vars

\* The transaction of the call was mined and reverted; the call was answered
\* with the failure and its intent was not sent again.
C26_Witness ==
    /\ Done("c1") /\ calls["c1"].res.code = 500
    /\ calls["c1"].tx \in Rejections
    /\ calls["c1"].res.error = "execution reverted"

\* C27: a call yields control at two points only, one round trip reading the
\* balance and the settlement status together and the submit-then-confirm call:
\* no other ledger operation takes effect between the read of the balance and
\* the read of the settlement status, nor between the submission and the
\* confirmation the call observes. Between those points the only change of the
\* ledger is the call's own transaction.
C27_NoOperationBetween ==
    [][\A c \in Calls :
          calls[c].pc \in {"isSessionSettled", "wait"} =>
              UNCHANGED ledgerVars \/ Mined(c)]_vars

\* C28: every call eventually sends exactly one response (success, pre-check
\* rejection or failure), provided every ledger call it awaits eventually
\* returns or throws: a received call reaches its end; it has sent a response
\* exactly when it is at its end; a response once sent is never replaced.
C28_ExactlyOneResponse ==
    /\ [](\A c \in Calls :
            /\ Done(c) <=> calls[c].res # NoResponse
            /\ Done(c) => calls[c].res.code \in {200, 400, 500})
    /\ [][\A c \in Calls :
             calls[c].res # NoResponse => calls'[c].res = calls[c].res]_vars
    /\ \A c \in Calls : (calls[c].pc # "idle") ~> Done(c)

\* A call whose transaction was sent and whose wait then failed for a reason of
\* the environment: it was answered once, with the failure, and stays so while
\* its transaction commits.
C28_Witness ==
    /\ Done("c1") /\ calls["c1"].res.code = 500
    /\ calls["c1"].res.error = "network error"
    /\ calls["c1"].tx = "ok"

\* ------------------------------------------------ what an operation leaves alone
\* Account a has never been touched: no deposit, no withdrawal, no settlement.
Untouched(a) == deposited[a] = 0 /\ withdrawn[a] = 0 /\ SettledCount(a) = 0

\* This step is a successful deposit or withdrawal of account a.
MovesFunds(a) == deposited'[a] # deposited[a] \/ withdrawn'[a] # withdrawn[a]

\* Every account but a keeps its balance and its nonce in this step.
OthersKept(a) ==
    \A b \in Accounts \ {a} :
        escrowBalances'[b] = escrowBalances[b] /\ nonces'[b] = nonces[b]

\* C29: deposit and withdraw change only the caller's balance, never a nonce
\* or the settled-session registry; a deposit, withdrawal or settlement for one
\* account leaves the balance and nonce of every other account unchanged; the
\* balance and nonce of an account never touched read as 0.
C29_OnlyOwnAccount ==
    /\ [](\A a \in Accounts : Untouched(a) => escrowBalances[a] = 0 /\ nonces[a] = 0)
    /\ [][/\ \A a \in Accounts :
                MovesFunds(a) =>
                    /\ OthersKept(a)
                    /\ UNCHANGED <<nonces, settledSessions, executed>>
                    /\ escrowBalances'[a] # escrowBalances[a]
          /\ Len(executed') > Len(executed) =>
                OthersKept(executed'[Len(executed')].payer)
          /\ (\E a \in Accounts : MovesFunds(a)) \/ Len(executed') > Len(executed)
                \/ UNCHANGED <<escrowBalances, nonces, settledSessions>>]_vars

\* One account has deposited, withdrawn and settled twice while the other was
\* never touched and still reads 0 and 0.
C29_Witness ==
    \E a, b \in Accounts :
        /\ a # b /\ deposited[a] > 0 /\ withdrawn[a] > 0 /\ nonces[a] = 2
        /\ Untouched(b) /\ escrowBalances[b] = 0 /\ nonces[b] = 0
        /\ usdc[b] = InitialFunds

\* ------------------------------------------------ a balance gone at commit
\* The reason the ledger gives for a validly signed, unexpired intent i whose
\* payer's balance is below the amount.
ReasonWhenShort(i) ==
    IF settledSessions[i.sessionId] THEN "Already settled"
    ELSE IF i.nonce # nonces[i.payer] THEN "Invalid nonce"
    ELSE "Insufficient balance"

\* The ledger evaluates the intent of call c in this step, in the simulation
\* that precedes sending or in the mined transaction; Verdict(c)' is its answer.
Evaluates(c) == Mined(c) \/ Leaves(c, "submit")

\* The payer's balance covers the amount of the intent of call c.
Funded(c) == escrowBalances[IntentOf(c).payer] >= IntentOf(c).amount

\* C30 as stated: when the payer's balance has fallen below the amount, by a
\* withdrawal or by another settlement of the payer, between a call's pre-check
\* and the commit of its settle, the ledger rejects the settle for insufficient
\* balance and changes nothing.
C30_ShortAtCommitInsufficient ==
    [][\A c \in Calls :
          (Mined(c) /\ ~Funded(c)) =>
              calls'[c].tx = "Insufficient balance" /\ UNCHANGED ledgerVars]_vars

\* C30, amended: when the payer's balance is below the amount as the ledger
\* evaluates a call's settle, the settle is rejected and nothing changes, nonce
\* and session included; the reason is insufficient balance when a withdrawal
\* took the balance, and NonceMismatch (AlreadySettled for the same session) when
\* another settlement of the payer did, since that one consumed the nonce. The
\* same signed intent, sent again after a rejection for insufficient balance,
\* passes the pre-check, is submitted and settles with exactly its effects
\* whenever the balance covers the amount again, no other settlement having
\* happened in between.
C30_ShortAtCommitRejected ==
    [][\A c \in Calls :
          /\ (Evaluates(c) /\ ~Funded(c)) =>
                /\ Verdict(c)' = ReasonWhenShort(IntentOf(c))
                /\ UNCHANGED ledgerVars
          /\ \A d \in Calls \ {c} :
                (/\ calls[d].pc # "idle"
                 /\ Evaluated(c) /\ Verdict(c) = "Insufficient balance"
                 /\ IntentOf(d) = IntentOf(c)
                 /\ Funded(d))
                => /\ Leaves(d, "getBalance") => calls'[d].pc = "isSessionSettled"
                   /\ Leaves(d, "isSessionSettled") => calls'[d].pc = "submit"
                   /\ Leaves(d, "submit") => calls'[d].tx = "pending"
                   /\ Mined(d) => calls'[d].tx = "ok" /\ SettledExactly(IntentOf(d))
                   /\ (Leaves(d, "wait") /\ calls[d].tx = "ok") =>
                         Outcome(calls'[d].res) = "Accepted"]_vars

\* The transaction of one call was mined after the payer had withdrawn and was
\* rejected for insufficient balance; the payer deposited again and the same
\* intent, sent again, was accepted.
C30_Witness ==
    \E c, d \in Calls :
        /\ c # d /\ Done(c) /\ Done(d)
        /\ calls[c].tx = "Insufficient balance" /\ calls[c].res.code = 500
        /\ IntentOf(d) = IntentOf(c)
        /\ Outcome(calls[d].res) = "Accepted" /\ calls[d].tx = "ok"
        /\ withdrawn[IntentOf(c).payer] > 0
        /\ deposited[IntentOf(c).payer] > InitialFunds
        /\ nonces[IntentOf(c).payer] = IntentOf(c).nonce + 1

\* ------------------------------------------------ failures and commits
\* C31: a call answered with a failure (the catch block's error response or a
\* pre-check rejection) is not a call whose own submission the ledger committed,
\* also when the confirmation wait fails after the transaction was sent.
C31_FailureMeansNotCommitted ==
    \A c \in Calls :
        (Done(c) /\ calls[c].res.code # 200) => calls[c].tx # "ok"

\* ------------------------------------------------ sums over the ledger
RECURSIVE SumOf(_, _)
\* The sum of f[x] over the elements x of the finite set S.
SumOf(f, S) ==
    IF S = {} THEN 0
    ELSE LET x == CHOOSE y \in S : TRUE IN f[x] + SumOf(f, S \ {x})

\* C32: in every reachable ledger state the sum of the nonces of all accounts
\* equals the number of settled sessionIds.
C32_NonceSumIsSettledCount ==
    SumOf(nonces, Accounts) = Cardinality({x \in Sessions : settledSessions[x]})

\* Both accounts have settled one session each, and an intent was rejected
\* after that.
C32_Witness ==
    /\ \A a \in Accounts : nonces[a] = 1
    /\ \A x \in Sessions : settledSessions[x]
    /\ lastTx = "Already settled"

\* The escrow balance of account a falls by k in this step.
LeavesEscrow(a, k) == k > 0 /\ escrowBalances'[a] = escrowBalances[a] - k

\* C33: custody is conserved: in every reachable state the tokens the contract
\* holds equal the sum of all escrow balances and the tokens of the service
\* wallet equal the sum of all settled amounts; what leaves an account's escrow
\* balance goes to that account's own address (withdraw) or to the service
\* wallet (settlement), never to the relayer or to another account.
C33_CustodyConserved ==
    /\ [](/\ usdc[EscrowAddr] = SumOf(escrowBalances, Accounts)
          /\ usdc[serviceWallet] = SumOf([a \in Accounts |-> SettledAmount(a)], Accounts)
          /\ \A a \in Accounts : usdc[a] = InitialFunds - deposited[a] + withdrawn[a]
          /\ usdc[relayerWallet] = 0)
    /\ [][\A a \in Accounts, k \in 1..MaxDeposited :
             LeavesEscrow(a, k) =>
                 \E to \in {a, serviceWallet} :
                     usdc' = [usdc EXCEPT ![EscrowAddr] = @ - k, ![to] = @ + k]]_vars

\* The contract holds one account's deposit, the service wallet was just paid a
\* settlement, and an account has withdrawn before.
C33_Witness ==
    /\ usdc[EscrowAddr] > 0 /\ usdc[serviceWallet] > 0
    /\ \E a \in Accounts : withdrawn[a] > 0 /\ SettledAmount(a) > 0
    /\ lastTx = "ok"

\* ------------------------------------------------ one registry for all payers
\* The session of call d's intent was settled by a payer other than d's.
SettledByOther(d) ==
    /\ calls[d].pc # "idle"
    /\ settledSessions[IntentOf(d).sessionId]
    /\ \E k \in DOMAIN executed :
          /\ executed[k].sessionId = IntentOf(d).sessionId
          /\ executed[k].payer # IntentOf(d).payer

\* Call d's intent is valid but for its session: signed by its payer, carrying
\* the payer's nonce, covered by the payer's balance.
ValidButSession(d) ==
    /\ ValidSig(IntentOf(d))
    /\ IntentOf(d).nonce = nonces[IntentOf(d).payer]
    /\ Funded(d)

\* C34 as stated: once a payer has settled a sessionId, every later intent
\* carrying it from another payer, however valid its signature, nonce and
\* balance, is rejected as already settled, by the pre-check or by the ledger.
C34_OtherPayerAlreadySettled ==
    [][\A d \in Calls :
          (SettledByOther(d) /\ ValidButSession(d)) =>
              /\ Reads(d, "isSessionSettled") =>
                    Outcome(calls'[d].res) = "AlreadySettled"
              /\ Evaluates(d) => Verdict(d)' = "Already settled"]_vars

\* C34, amended: once a payer has settled a sessionId, every later intent
\* carrying it from another payer, however valid its signature, nonce and
\* balance, is rejected and changes nothing: as already settled by the
\* pre-check's read of the registry, and by the ledger as already settled unless
\* the intent is expired, which the ledger reports first.
C34_OtherPayerRejected ==
    [][\A d \in Calls :
          (SettledByOther(d) /\ ValidButSession(d)) =>
              /\ Reads(d, "getBalance") =>
                    calls'[d].pc = "isSessionSettled" /\ UNCHANGED ledgerVars
              /\ Reads(d, "isSessionSettled") =>
                    /\ calls'[d].pc = "done" /\ calls'[d].tx = "none"
                    /\ Outcome(calls'[d].res) = "AlreadySettled"
                    /\ UNCHANGED ledgerVars
              /\ Evaluates(d) =>
                    /\ Verdict(d)' = IF now > IntentOf(d).deadline THEN "Intent expired"
                                     ELSE "Already settled"
                    /\ UNCHANGED ledgerVars]_vars

\* Payer A's call settled the session; payer B's transaction for the same
\* session, sent before that, was mined after it and rejected as already
\* settled although B's nonce and balance were good.
C34_Witness ==
    \E c, d \in Calls :
        /\ calls[c].tx = "ok" /\ calls[d].tx = "Already settled"
        /\ IntentOf(c).payer # IntentOf(d).payer
        /\ IntentOf(c).sessionId = IntentOf(d).sessionId
        /\ SettledByOther(d) /\ ValidButSession(d)

\* ------------------------------------------------ the reentrancy guard
\* C35: while deposit, withdraw or executePaymentIntent is in its external
\* token call the guard is set and any nested call to one of the three functions
\* reverts, changing nothing; between top-level calls, also after a reverted
\* one, the guard is NOT_ENTERED, so the contract is never locked; a call that
\* completes leaves the state its function gives as a whole.
C35_GuardHolds ==
    /\ [](/\ frame.pc \in {"idle", "done"} => _status = _NOT_ENTERED
          /\ frame.pc = "external" => _status = _ENTERED)
    /\ [][/\ (frame.pc = "external" /\ frame'.pc = "external") =>
                /\ lastTx' = "ReentrancyGuard: reentrant call"
                /\ UNCHANGED <<ledgerVars, _status>>
          /\ (frame.pc = "external" /\ frame'.pc = "done") =>
                Run(FrameCall, FrameEntry, now) =
                    [ledger |-> Ledger', status |-> frame'.status]
                \/ (frame'.status = "ERC20: transfer failed" /\ Ledger' = FrameEntry)
          /\ (frame.pc = "idle" /\ frame'.pc = "done") =>
                /\ frame'.status # "ReentrancyGuard: reentrant call"
                /\ Run(FrameCall', Ledger, now) =
                      [ledger |-> Ledger', status |-> frame'.status]]_vars

\* A nested call was refused by the guard, the top-level call then reverted,
\* and the guard is free again after an earlier call had completed.
C35_Witness ==
    /\ frame.pc = "done" /\ frame.status = "ERC20: transfer failed"
    /\ lastTx = "ReentrancyGuard: reentrant call"
    /\ _status = _NOT_ENTERED
    /\ Len(executed) > 0

\* ------------------------------------------------ a balance equal to the amount
\* C36: the balance pre-check and the ledger's balance check are both
\* inclusive: an otherwise valid intent whose amount equals the payer's balance
\* passes the pre-check, is submitted, and settles leaving balance 0.
C36_EqualBalanceSettles ==
    [][\A c \in Calls :
          (/\ calls[c].pc # "idle"
           /\ FiveConditions(IntentOf(c))
           /\ escrowBalances[IntentOf(c).payer] = IntentOf(c).amount)
          => /\ Leaves(c, "getBalance") => calls'[c].pc = "isSessionSettled"
             /\ Leaves(c, "isSessionSettled") => calls'[c].pc = "submit"
             /\ Leaves(c, "submit") => calls'[c].pc = "wait" /\ calls'[c].tx = "pending"
             /\ Mined(c) =>
                   /\ calls'[c].tx = "ok"
                   /\ escrowBalances'[IntentOf(c).payer] = 0
                   /\ usdc'[serviceWallet] = usdc[serviceWallet] + IntentOf(c).amount]_vars

\* The transaction of a call whose amount was the payer's whole balance has
\* just been mined: it committed and the balance is 0.
C36_Witness ==
    \E c \in Calls :
        /\ calls[c].pc = "wait" /\ calls[c].tx = "ok" /\ ~calls[c].raced
        /\ NoWithdrawals
        /\ deposited[IntentOf(c).payer] = IntentOf(c).amount
        /\ escrowBalances[IntentOf(c).payer] = 0

\* ------------------------------------------------ counting the calls of a session
\* The step completes /chat invocation h with a 200 answer.
ChatSucceeds(h) ==
    chat[h].pc # "done" /\ chat'[h].pc = "done" /\ chat'[h].res.code = 200

\* C37: each successful /chat call on a usage session increases the session's
\* calls_count by exactly 1, so that after any set of N successful calls,
\* sequential or concurrent, the count has grown by N: no increment is lost.
C37_NoIncrementLost ==
    [][\A h \in ChatReqs :
          ChatSucceeds(h) =>
              api_sessions'[chat[h].session_id].calls_count
                  = api_sessions[chat[h].session_id].calls_count + 1]_vars

\* ------------------------------------------------ one active row per upload
\* The step completes /upload invocation p with a 200 answer.
UploadSucceeds(p) ==
    upload[p].pc # "done" /\ upload'[p].pc = "done" /\ upload'[p].res.code = 200

\* C38: an /upload call never adds a second active (not soft-deleted)
\* storage_files row for its user and content id, whether the calls are
\* sequential or concurrent: when the user has an active row for the content
\* id, the call returns that row marked idempotent, and at most one active
\* row is left.
C38_AtMostOneActiveRow ==
    [][\A p \in UploadReqs :
          LET before == ActiveRows(upload[p].user_address, upload[p].cid[1])
              after == ActiveRows(upload[p].user_address, upload[p].cid[1])'
          IN  (UploadSucceeds(p) /\ Cardinality(before) = 1) =>
                  /\ after = before
                  /\ upload'[p].res.idempotent
                  /\ \E k \in before : upload'[p].res.file = Some(storage_files[k])]_vars

====
